---- MODULE Spec2Model ----
(***************************************************************************)
(* Model of the tickify-api persistence protocol and request pipeline.     *)
(*                                                                         *)
(* The relational store is two tables, `users` and `tickets`, each a       *)
(* function from row ids to rows.  Every SQL statement of the source is    *)
(* one application of UpdateCol / InsertRow / DeleteRow to a table; a      *)
(* handler is the sequence of the statements its code issues.  The         *)
(* statements a handler issued are recorded in `stmts`, the request it     *)
(* served in `req` and its answer in `result`.                             *)
(***************************************************************************)
EXTENDS Integers, Sequences, FiniteSets, TLC

VARIABLES
    users,      \* table users:   user id   -> row
    tickets,    \* table tickets: ticket id -> row
    now,        \* the wall clock read by chrono::Utc::now()
    req,        \* the request served by the last step
    result,     \* the Result<_, ApiError> the last step returned
    stmts,      \* the SQL statements the handler of the last step issued, in order
    tokens      \* the bearer tokens login has issued so far

vars == <<users, tickets, now, req, result, stmts, tokens>>

-----------------------------------------------------------------------------
(* Bounds and input sets *)

\* Largest value of the clock.
MaxTime == 2

\* Option::None of a payload field, and SQL NULL of a text / uuid column.
NONE == "none"

\* SQL NULL of the nullable timestamp column closed_at (Ticket::new: None).
NullTime == 0

TicketStatus == {"open", "inprogress", "closed", "reopened", "paused", "cancelled"}

Role == {"user", "moderator", "admin"}

Status == {"active", "inactive"}

\* Ticket ids handed out by Uuid::now_v7(), and an id no ticket ever has.
TicketIds == {"t1"}
UnknownTicket == "t9"

\* A title CreateTicketPayload::validate and UpdateTicketPayload::validate reject.
BadTitle == "ab"

-----------------------------------------------------------------------------
(* The store: one definition per kind of SQL statement *)

\* Mutant of UpdateCol: the statement has lost its WHERE clause.
UpdateCol_AllRows(tbl, id, col, val) ==
    [r \in DOMAIN tbl |-> [tbl[r] EXCEPT ![col] = val]]

\* Mutant of UpdateCol: the UPDATE has become an upsert.
UpdateCol_Upsert(tbl, id, col, val) ==
    IF id \in DOMAIN tbl
    THEN [tbl EXCEPT ![id] = [@ EXCEPT ![col] = val]]
    ELSE (id :> [title |-> "", description |-> "", requester |-> NONE, status |-> "open",
                 closed_by |-> NONE, solution |-> NONE, created_at |-> 0, updated_at |-> 0,
                 closed_at |-> 0])
         @@ tbl

\* Mutant of UpdateCol: every UPDATE of another column also clears closed_at.
UpdateCol_ClearsClosedAt(tbl, id, col, val) ==
    IF id \in DOMAIN tbl
    THEN [tbl EXCEPT ![id] = IF col = "closed_at" THEN [@ EXCEPT ![col] = val]
                             ELSE [@ EXCEPT ![col] = val, !["closed_at"] = 0]]
    ELSE tbl

\* UPDATE <tbl> SET <col> = <val> WHERE id = <id>;  (no row: zero rows affected)
UpdateCol(tbl, id, col, val) ==
    IF id \in DOMAIN tbl
    THEN [tbl EXCEPT ![id] = [@ EXCEPT ![col] = val]]
    ELSE tbl

\* INSERT INTO <tbl> ... VALUES (row)
InsertRow(tbl, id, row) == (id :> row) @@ tbl

\* DELETE FROM <tbl> WHERE id = <id>;
DeleteRow(tbl, id) == [i \in DOMAIN tbl \ {id} |-> tbl[i]]

\* The statements that write, as they appear in `stmts`: <<verb, column>>,
\* and for the read of the previous status also the value it returned.
IsWrite(s) == s[1] \in {"UPDATE", "INSERT", "DELETE"}

Writes(ss) == SelectSeq(ss, IsWrite)

\* What a handler has done so far: the table after its statements, the
\* statements, and its local `updated` flag.
Begin(tbl) == [db |-> tbl, stmts |-> <<>>, updated |-> FALSE]

\* sqlx::query("SELECT ...") appended to the statements issued.
Select(s, what) == [s EXCEPT !.stmts = Append(@, <<"SELECT", what>>)]

\* Mutant of SetIfSome: the flag is raised only when the value differs.
SetIfSome_OnlyIfChanged(s, id, col, v) ==
    IF v = NONE
    THEN s
    ELSE [db |-> UpdateCol(s.db, id, col, v),
          stmts |-> Append(s.stmts, <<"UPDATE", col>>),
          updated |-> s.updated \/ (id \in DOMAIN s.db /\ s.db[id][col] # v)]

\* `if let Some(v) = field { UPDATE ... SET col = v WHERE id; updated = true; }`
SetIfSome(s, id, col, v) ==
    IF v = NONE
    THEN s
    ELSE [db |-> UpdateCol(s.db, id, col, v),
          stmts |-> Append(s.stmts, <<"UPDATE", col>>),
          updated |-> TRUE]

\* A statement that writes one column and leaves the `updated` flag alone.
SetCol(s, id, col, v) ==
    [s EXCEPT !.db = UpdateCol(s.db, id, col, v),
              !.stmts = Append(@, <<"UPDATE", col>>)]

\* Mutant of Finish: the updated_at stamp no longer depends on `updated`.
Finish_AlwaysStamp(s, id, t) ==
    [db |-> UpdateCol(s.db, id, "updated_at", t),
     stmts |-> Append(s.stmts, <<"UPDATE", "updated_at">>),
     result |-> [kind |-> "Ok", id |-> id]]

\* The tail of both update protocols: stamp updated_at, or NotModified.
Finish(s, id, t) ==
    IF s.updated
    THEN [db |-> UpdateCol(s.db, id, "updated_at", t),
          stmts |-> Append(s.stmts, <<"UPDATE", "updated_at">>),
          result |-> [kind |-> "Ok", id |-> id]]
    ELSE [db |-> s.db, stmts |-> s.stmts,
          result |-> [kind |-> "NotModified", id |-> NONE]]

\* A handler that returned early with an error, having issued `ss`.
Fail(tbl, ss, kind) ==
    [db |-> tbl, stmts |-> ss, result |-> [kind |-> kind, id |-> NONE]]

-----------------------------------------------------------------------------
(* Tickets *)

\* Ticket::new: a fresh Open ticket with no closing data.
Ticket_new(title, description, requester, t) ==
    [title |-> title, description |-> description, requester |-> requester,
     status |-> "open", closed_by |-> NONE, solution |-> NONE,
     created_at |-> t, updated_at |-> t, closed_at |-> NullTime]

\* #[validate(length(min, max))] on a String / Option<String> field.
LengthOk(v, min, max) == v = NONE \/ (Len(v) >= min /\ Len(v) <= max)

MinTitle == 3
MaxTitle == 50
MinText == 10
MaxText == 3000

\* CreateTicketPayload::validate
CreateTicketPayload_validate(p) ==
    /\ LengthOk(p.title, MinTitle, MaxTitle)
    /\ LengthOk(p.description, MinText, MaxText)

\* UpdateTicketPayload::validate
UpdateTicketPayload_validate(p) ==
    /\ LengthOk(p.title, MinTitle, MaxTitle)
    /\ LengthOk(p.description, MinText, MaxText)
    /\ LengthOk(p.solution, MinText, MaxText)

\* The patch with every optional field absent.
EmptyTicketPatch(id) ==
    [id |-> id, title |-> NONE, description |-> NONE, requester |-> NONE,
     status |-> NONE, closed_by |-> NONE, solution |-> NONE]

\* The optional fields a ticket patch supplies.
TicketFields == {"title", "description", "requester", "status", "closed_by", "solution"}
Supplied(p) == {f \in TicketFields : p[f] # NONE}

\* Mutant of ticket_exists: the probe result is ignored.
ticket_exists_Always(tbl, id) == TRUE

\* validations::existence::ticket_exists: SELECT id FROM tickets WHERE id = $1
ticket_exists(tbl, id) == id \in DOMAIN tbl

\* `SELECT id FROM users WHERE username = $1 LIMIT 1`: the ids it can return.
UserIdsNamed(utbl, username) == {u \in DOMAIN utbl : utbl[u].username = username}

\* Mutant of ClosedAtGuard: the guard the comment in the source describes.
ClosedAtGuard_And(prev_status) == prev_status # "closed" /\ prev_status # "cancelled"

\* `prev_status != Closed || prev_status != Cancelled` (the closed_at guard)
ClosedAtGuard(prev_status) == prev_status # "closed" \/ prev_status # "cancelled"

\* Mutant of IsTerminal: Closed is forgotten.
IsTerminal_CancelledOnly(status) == status = "cancelled"

\* `status == Closed || status == Cancelled`
IsTerminal(status) == status = "closed" \/ status = "cancelled"

\* The `if let Some(status) = new_status { ... }` block of the ticket update.
StatusBlock(s, id, status, t) ==
    IF status = NONE
    THEN s
    ELSE LET previous_status ==
                 IF id \in DOMAIN s.db THEN s.db[id].status ELSE NONE
             read == [s EXCEPT !.stmts = Append(@, <<"SELECT", "status", previous_status>>)]
             s1 == SetCol(read, id, "status", status)
             s2 == IF /\ IsTerminal(status)
                      /\ previous_status # NONE
                      /\ ClosedAtGuard(previous_status)
                   THEN SetCol(s1, id, "closed_at", t)
                   ELSE s1
         IN  [s2 EXCEPT !.updated = TRUE]

\* TicketRepositoryImpl::update: the field-by-field partial update.
TicketRepositoryImpl_update(tbl, p, t) ==
    LET s1 == SetIfSome(Begin(tbl), p.id, "title", p.title)
        s2 == SetIfSome(s1, p.id, "description", p.description)
        s3 == SetIfSome(s2, p.id, "requester", p.requester)
        s4 == StatusBlock(s3, p.id, p.status, t)
        s5 == SetIfSome(s4, p.id, "closed_by", p.closed_by)
        s6 == SetIfSome(s5, p.id, "solution", p.solution)
    IN  Finish(s6, p.id, t)

\* controllers::ticket::update_ticket: validate, ticket_exists, then the same
\* field-by-field statements as the repository.
update_ticket(tbl, p, t) ==
    IF ~UpdateTicketPayload_validate(p)
    THEN Fail(tbl, <<>>, "ValidationError")
    ELSE IF ~ticket_exists(tbl, p.id)
    THEN Fail(tbl, <<<<"SELECT", "id">>>>, "NotFound")
    ELSE LET s0 == Select(Begin(tbl), "id")
             s1 == SetIfSome(s0, p.id, "title", p.title)
             s2 == SetIfSome(s1, p.id, "description", p.description)
             s3 == SetIfSome(s2, p.id, "requester", p.requester)
             s4 == StatusBlock(s3, p.id, p.status, t)
             s5 == SetIfSome(s4, p.id, "closed_by", p.closed_by)
             s6 == SetIfSome(s5, p.id, "solution", p.solution)
         IN  Finish(s6, p.id, t)

\* TicketRepositoryImpl::create, for the requester id the lookup returned and
\* the id Uuid::now_v7() produced.  No user of that name: fetch_one fails.
TicketRepositoryImpl_create(tbl, utbl, p, id, t) ==
    IF UserIdsNamed(utbl, p.requester) = {}
    THEN {Fail(tbl, <<<<"SELECT", "users.id">>>>, "DatabaseError")}
    ELSE {[db |-> InsertRow(tbl, id, Ticket_new(p.title, p.description, requester_id, t)),
           stmts |-> <<<<"SELECT", "users.id">>, <<"INSERT", "tickets">>>>,
           result |-> [kind |-> "Ok", id |-> id]]
          : requester_id \in UserIdsNamed(utbl, p.requester)}

\* controllers::ticket::create_ticket: validate, then look the requester up by
\* the username of the payload and insert Ticket::new.
create_ticket(tbl, utbl, p, id, t) ==
    IF ~CreateTicketPayload_validate(p)
    THEN {Fail(tbl, <<>>, "ValidationError")}
    ELSE TicketRepositoryImpl_create(tbl, utbl, p, id, t)

\* controllers::ticket::search_ticket: SELECT * FROM tickets WHERE id = $1,
\* the row as a Ticket or NotFound.
search_ticket(tbl, id) ==
    IF id \in DOMAIN tbl
    THEN [kind |-> "Ok", ticket |-> [tbl[id] EXCEPT !.title = @] @@ [id |-> id]]
    ELSE [kind |-> "NotFound", ticket |-> NONE]

\* TicketRepositoryImpl::find_by_id: the ticket joined with its requester
\* (JOIN) and its closer (LEFT JOIN); None when the id or the requester's
\* row is missing.
TicketRepositoryImpl_find_by_id(tbl, utbl, id) ==
    IF id \in DOMAIN tbl /\ tbl[id].requester \in DOMAIN utbl
    THEN LET r == tbl[id]
             info(u) == [id |-> u, username |-> utbl[u].username, email |-> utbl[u].email,
                         first_name |-> utbl[u].first_name, last_name |-> utbl[u].last_name]
         IN  {[id |-> id, title |-> r.title, description |-> r.description,
               status |-> r.status, solution |-> r.solution,
               created_at |-> r.created_at, updated_at |-> r.updated_at,
               closed_at |-> r.closed_at,
               requester |-> info(r.requester),
               closed_by |-> IF r.closed_by \in DOMAIN utbl THEN info(r.closed_by) ELSE NONE]}
    ELSE {}

\* TicketRepositoryImpl::delete: the DELETE alone, a no-op on a missing id.
TicketRepositoryImpl_delete(tbl, id) ==
    [db |-> DeleteRow(tbl, id), stmts |-> <<<<"DELETE", "tickets">>>>,
     result |-> [kind |-> "Ok", id |-> NONE]]

\* controllers::ticket::delete_ticket: ticket_exists, then the DELETE.
delete_ticket(tbl, id) ==
    IF ~ticket_exists(tbl, id)
    THEN Fail(tbl, <<<<"SELECT", "id">>>>, "NotFound")
    ELSE [db |-> DeleteRow(tbl, id),
          stmts |-> <<<<"SELECT", "id">>, <<"DELETE", "tickets">>>>,
          result |-> [kind |-> "Ok", id |-> NONE]]

-----------------------------------------------------------------------------
(* Users *)

\* utils::hashing::encrypt_password: an argon2 hash string of the password.
encrypt_password(password) == <<"argon2", password>>

\* User::new as UserRepositoryImpl::create calls it; an absent role or status
\* takes the default.
User_new(username, email, password_hash, first_name, last_name, role, status, t) ==
    [username |-> username, email |-> email, password_hash |-> password_hash,
     first_name |-> first_name, last_name |-> last_name,
     role |-> IF role = NONE THEN "user" ELSE role,
     status |-> IF status = NONE THEN "active" ELSE status,
     created_at |-> t, updated_at |-> t]

\* The users every behaviour starts with: an administrator, a moderator, an
\* ordinary user and a deactivated ordinary user.
InitUsers ==
    ("u_root" :> User_new("root", NONE, encrypt_password("rootpass"), NONE, NONE, "admin", "active", 1))
 @@ ("u_mod" :> User_new("mod", NONE, encrypt_password("modpass1"), NONE, NONE, "moderator", "active", 1))
 @@ ("u_alice" :> User_new("alice", NONE, encrypt_password("alicepass"), NONE, NONE, "user", "active", 1))
 @@ ("u_bob" :> User_new("bob", NONE, encrypt_password("bobpass1"), NONE, NONE, "user", "inactive", 1))

\* The patch with every optional field absent.
EmptyUserPatch(id) ==
    [id |-> id, username |-> NONE, email |-> NONE, password |-> NONE,
     first_name |-> NONE, last_name |-> NONE, role |-> NONE, status |-> NONE]

UserFields == {"username", "email", "password", "first_name", "last_name", "role", "status"}
SuppliedUser(p) == {f \in UserFields : p[f] # NONE}

MinName == 3
MaxName == 20
MinPassword == 8
MaxPassword == 100

\* #[validate(email)]: the address has a local part, an @ and a domain.
EmailOk(v) == v = NONE \/ v \in {"ann@example.org"}

\* UpdateUserPayload::validate
UpdateUserPayload_validate(p) ==
    /\ LengthOk(p.username, MinName, MaxName)
    /\ EmailOk(p.email)
    /\ LengthOk(p.password, MinPassword, MaxPassword)
    /\ LengthOk(p.first_name, MinName, MaxName)
    /\ LengthOk(p.last_name, MinName, MaxName)

\* Mutant of user_exists: the probe always finds a row.
user_exists_Always(utbl, id) == TRUE

\* validations::existence::user_exists: SELECT id FROM users WHERE id = $1
user_exists(utbl, id) == id \in DOMAIN utbl

\* Mutant of UsernameTaken: the users table has no unique key.
UsernameTaken_Never(utbl, id, username) == FALSE

\* The unique key on users.username: a row other than `id` holds `username`,
\* so the store rejects the INSERT or UPDATE that would give it to `id`.
UsernameTaken(utbl, id, username) ==
    \E u \in DOMAIN utbl \ {id} : utbl[u].username = username

\* `UPDATE users SET username = $1 WHERE id = $2` is rejected by the store.
UsernameUpdateRejected(utbl, p) ==
    /\ p.username # NONE
    /\ p.id \in DOMAIN utbl
    /\ UsernameTaken(utbl, p.id, p.username)

\* `if let Some(password) = new_password`: hash it, then write password_hash.
SetPasswordIfSome(s, id, password) ==
    IF password = NONE
    THEN s
    ELSE [db |-> UpdateCol(s.db, id, "password_hash", encrypt_password(password)),
          stmts |-> Append(s.stmts, <<"UPDATE", "password_hash">>),
          updated |-> TRUE]

\* UserRepositoryImpl::update: the field-by-field partial update; the
\* username statement comes first and `?` returns the store's rejection.
UserRepositoryImpl_update(utbl, p, t) ==
    IF UsernameUpdateRejected(utbl, p)
    THEN Fail(utbl, <<<<"REJECTED", "username">>>>, "DatabaseError")
    ELSE
    LET s1 == SetIfSome(Begin(utbl), p.id, "username", p.username)
        s2 == SetIfSome(s1, p.id, "email", p.email)
        s3 == SetPasswordIfSome(s2, p.id, p.password)
        s4 == SetIfSome(s3, p.id, "first_name", p.first_name)
        s5 == SetIfSome(s4, p.id, "last_name", p.last_name)
        s6 == SetIfSome(s5, p.id, "role", p.role)
        s7 == SetIfSome(s6, p.id, "status", p.status)
    IN  Finish(s7, p.id, t)

\* controllers::user::update_user: validate, user_exists, then username,
\* email, password, first_name and last_name; it knows no role or status.
update_user(utbl, p, t) ==
    IF ~UpdateUserPayload_validate(p)
    THEN Fail(utbl, <<>>, "ValidationError")
    ELSE IF ~user_exists(utbl, p.id)
    THEN Fail(utbl, <<<<"SELECT", "id">>>>, "NotFound")
    ELSE IF UsernameUpdateRejected(utbl, p)
    THEN Fail(utbl, <<<<"SELECT", "id">>, <<"REJECTED", "username">>>>, "DatabaseError")
    ELSE LET s0 == Select(Begin(utbl), "id")
             s1 == SetIfSome(s0, p.id, "username", p.username)
             s2 == SetIfSome(s1, p.id, "email", p.email)
             s3 == SetPasswordIfSome(s2, p.id, p.password)
             s4 == SetIfSome(s3, p.id, "first_name", p.first_name)
             s5 == SetIfSome(s4, p.id, "last_name", p.last_name)
         IN  Finish(s5, p.id, t)

-----------------------------------------------------------------------------
(* Ticket lifecycle: the handlers and repository calls applied to the store *)

\* The ticket patches the lifecycle draws from: the empty patch, the patches
\* of title, of status or of solution alone, one patch of every field, and
\* one whose title fails validation.
PatchSpace(id) ==
    [id : {id}, title : {NONE, "Scanner"}, description : {NONE, "Out of toner"},
     requester : {NONE, "u_root"}, status : {NONE} \cup TicketStatus,
     closed_by : {NONE, "u_mod"}, solution : {NONE, "Replaced roller"}]

TicketPatches(id) ==
    {p \in PatchSpace(id) :
        \/ (Cardinality(Supplied(p)) <= 1 /\ Supplied(p) \subseteq {"title", "status", "solution"})
        \/ (Supplied(p) = TicketFields /\ p.status = "closed")}
    \cup {[EmptyTicketPatch(id) EXCEPT !.title = BadTitle]}

\* The patches sent for an id that names no ticket.
UnknownPatches ==
    {EmptyTicketPatch(UnknownTicket),
     [EmptyTicketPatch(UnknownTicket) EXCEPT !.status = "closed"]}

CreateTicketPayloads ==
    [title : {"Printer", BadTitle}, description : {"Paper jams!"},
     requester : {"alice", "ghost"}]

Init ==
    /\ users = InitUsers
    /\ tickets = <<>>
    /\ now = 1
    /\ req = [op |-> "init", payload |-> NONE]
    /\ result = [kind |-> "Ok", id |-> NONE]
    /\ stmts = <<>>
    /\ tokens = {}

\* The outcome `o` of a ticket operation becomes the next state.
Served(op, payload, o) ==
    /\ tickets' = o.db
    /\ stmts' = o.stmts
    /\ result' = o.result
    /\ req' = [op |-> op, payload |-> payload]
    /\ UNCHANGED <<users, now, tokens>>

\* Time passes between requests.
Tick ==
    /\ now < MaxTime
    /\ now' = now + 1
    /\ req' = [op |-> "tick", payload |-> NONE]
    /\ result' = [kind |-> "Ok", id |-> NONE]
    /\ stmts' = <<>>
    /\ UNCHANGED <<users, tickets, tokens>>

HandleCreateTicket ==
    \E p \in CreateTicketPayloads, id \in TicketIds \ DOMAIN tickets :
        \E o \in create_ticket(tickets, users, p, id, now) :
            Served("create_ticket", p, o)

HandleUpdateTicket ==
    \E p \in UNION {TicketPatches(id) : id \in TicketIds} \cup UnknownPatches :
        Served("update_ticket", p, update_ticket(tickets, p, now))

CallTicketUpdate ==
    \E p \in UNION {TicketPatches(id) : id \in TicketIds} \cup UnknownPatches :
        Served("Ticket::update", p, TicketRepositoryImpl_update(tickets, p, now))

HandleDeleteTicket ==
    \E id \in TicketIds \cup {UnknownTicket} :
        Served("delete_ticket", [id |-> id], delete_ticket(tickets, id))

Next ==
    \/ Tick
    \/ HandleCreateTicket
    \/ HandleUpdateTicket
    \/ CallTicketUpdate
    \/ HandleDeleteTicket

Spec == Init /\ [][Next]_vars

-----------------------------------------------------------------------------
(* The partial-update protocol applied once to a store drawn from the rows  *)
(* the lifecycle can produce                                                *)

TicketRows ==
    [title : {"Printer"}, description : {"Paper jams!"}, requester : {"u_alice"},
     status : TicketStatus, closed_by : {NONE, "u_mod"}, solution : {NONE},
     created_at : {1}, updated_at : {1}, closed_at : {NullTime, 1}]

UnknownUser == "u9"

UserPatchSpace(id) ==
    [id : {id}, username : {NONE, "carol"}, email : {NONE, "ann@example.org"},
     password : {NONE, "newpass12"}, first_name : {NONE, "Ann"},
     last_name : {NONE, "Lee"}, role : {NONE, "admin"}, status : {NONE, "inactive"}]

InitUpdate ==
    /\ users = InitUsers
    /\ tickets \in {("t1" :> r) @@ ("t2" :> Ticket_new("Monitor", "No signal at all", "u_root", 1))
                    : r \in TicketRows}
    /\ now \in 1..MaxTime
    /\ req = [op |-> "init", payload |-> NONE]
    /\ result = [kind |-> "Ok", id |-> NONE]
    /\ stmts = <<>>
    /\ tokens = {}

\* The outcome `o` of a user operation becomes the next state.
ServedUser(op, payload, o) ==
    /\ users' = o.db
    /\ stmts' = o.stmts
    /\ result' = o.result
    /\ req' = [op |-> op, payload |-> payload]
    /\ UNCHANGED <<tickets, now, tokens>>

ApplyTicketUpdate ==
    /\ req.op = "init"
    /\ \E p \in PatchSpace("t1") \cup PatchSpace(UnknownTicket) :
           Served("Ticket::update", p, TicketRepositoryImpl_update(tickets, p, now))

ApplyUpdateTicket ==
    /\ req.op = "init"
    /\ \E p \in PatchSpace("t1") \cup PatchSpace(UnknownTicket)
                \cup {[EmptyTicketPatch(UnknownTicket) EXCEPT !.title = BadTitle]} :
           Served("update_ticket", p, update_ticket(tickets, p, now))

ApplyUserUpdate ==
    /\ req.op = "init"
    /\ \E p \in UserPatchSpace("u_alice") \cup UserPatchSpace(UnknownUser) :
           ServedUser("User::update", p, UserRepositoryImpl_update(users, p, now))

ApplyUpdateUser ==
    /\ req.op = "init"
    /\ \E p \in UserPatchSpace("u_alice") \cup UserPatchSpace(UnknownUser) :
           ServedUser("update_user", p, update_user(users, p, now))

NextUpdate ==
    \/ ApplyTicketUpdate
    \/ ApplyUpdateTicket
    \/ ApplyUserUpdate
    \/ ApplyUpdateUser

SpecUpdate == InitUpdate /\ [][NextUpdate]_vars

-----------------------------------------------------------------------------
(* User management: registration and the user handlers *)

\* User::find_all: SELECT * FROM users, every row as a User (all columns).
User_find_all(utbl) == {[id |-> u] @@ utbl[u] : u \in DOMAIN utbl}

\* User::find_by_id: SELECT * FROM users WHERE id = $1, as an optional User.
User_find_by_id(utbl, id) == {[id |-> u] @@ utbl[u] : u \in DOMAIN utbl \cap {id}}

\* The columns UserRepositoryImpl's reads select into UserPublic.
UserPublicColumns ==
    {"username", "email", "first_name", "last_name", "role", "status", "created_at", "updated_at"}

\* UserRepositoryImpl::find_all: the listed columns of every row.
UserRepositoryImpl_find_all(utbl) ==
    {[id |-> u] @@ [c \in UserPublicColumns |-> utbl[u][c]] : u \in DOMAIN utbl}

\* UserRepositoryImpl::find_by_id: the listed columns of the row, if any.
UserRepositoryImpl_find_by_id(utbl, id) ==
    {[id |-> u] @@ [c \in UserPublicColumns |-> utbl[u][c]] : u \in DOMAIN utbl \cap {id}}

\* controllers::user::find_all_users: Json(User::find_all).
find_all_users(utbl) == [kind |-> "Ok", body |-> User_find_all(utbl)]

\* controllers::user::find_user_by_id: Json(user), or NotFound.
find_user_by_id(utbl, id) ==
    IF User_find_by_id(utbl, id) = {}
    THEN [kind |-> "NotFound", body |-> {}]
    ELSE [kind |-> "Ok", body |-> User_find_by_id(utbl, id)]

\* CreateUserPayload::validate
CreateUserPayload_validate(p) ==
    /\ LengthOk(p.username, MinName, MaxName)
    /\ EmailOk(p.email)
    /\ LengthOk(p.password, MinPassword, MaxPassword)
    /\ LengthOk(p.first_name, MinName, MaxName)
    /\ LengthOk(p.last_name, MinName, MaxName)

\* RegisterPayload::validate: the registration body carries the fields of
\* CreateUserPayload without role and status.
RegisterPayload_validate(p) == CreateUserPayload_validate(p)

\* CreateUserPayload::from(RegisterPayload): the same five fields.
CreateUserPayload_from(p) ==
    [username |-> p.username, email |-> p.email, password |-> p.password,
     first_name |-> p.first_name, last_name |-> p.last_name]

\* Mutant of is_user_unique: the probe result is ignored.
is_user_unique_Always(utbl, username) == TRUE

\* validations::uniqueness::is_user_unique:
\* SELECT id FROM users WHERE username = $1 finds no row.
is_user_unique(utbl, username) == UserIdsNamed(utbl, username) = {}

\* User::create: hash the password, build the user, INSERT it; role and
\* status take the column defaults.
User_create(utbl, p, id, t) ==
    IF UsernameTaken(utbl, id, p.username)
    THEN Fail(utbl, <<<<"REJECTED", "users">>>>, "DatabaseError")
    ELSE
    [db |-> InsertRow(utbl, id,
                User_new(p.username, p.email, encrypt_password(p.password),
                         p.first_name, p.last_name, NONE, NONE, t)),
     stmts |-> <<<<"INSERT", "users">>>>,
     result |-> [kind |-> "Ok", id |-> id]]

\* controllers::auth::register: validate, is_user_unique, User::create.
register(utbl, p, id, t) ==
    IF ~RegisterPayload_validate(p)
    THEN Fail(utbl, <<>>, "ValidationError")
    ELSE IF ~is_user_unique(utbl, p.username)
    THEN Fail(utbl, <<<<"SELECT", "id">>>>, "AlreadyExists")
    ELSE LET o == User_create(utbl, CreateUserPayload_from(p), id, t)
         IN  [o EXCEPT !.stmts = <<<<"SELECT", "id">>>> \o @]

\* controllers::user::create_user: validate, is_user_unique, User::new, INSERT.
create_user(utbl, p, id, t) ==
    IF ~CreateUserPayload_validate(p)
    THEN Fail(utbl, <<>>, "ValidationError")
    ELSE IF ~is_user_unique(utbl, p.username)
    THEN Fail(utbl, <<<<"SELECT", "id">>>>, "AlreadyExists")
    ELSE IF UsernameTaken(utbl, id, p.username)
    THEN Fail(utbl, <<<<"SELECT", "id">>, <<"REJECTED", "users">>>>, "DatabaseError")
    ELSE [db |-> InsertRow(utbl, id,
                    User_new(p.username, p.email, encrypt_password(p.password),
                             p.first_name, p.last_name, NONE, NONE, t)),
          stmts |-> <<<<"SELECT", "id">>, <<"INSERT", "users">>>>,
          result |-> [kind |-> "Ok", id |-> id]]

\* controllers::user::delete_user: user_exists, then the DELETE.
delete_user(utbl, id) ==
    IF ~user_exists(utbl, id)
    THEN Fail(utbl, <<<<"SELECT", "id">>>>, "NotFound")
    ELSE [db |-> DeleteRow(utbl, id),
          stmts |-> <<<<"SELECT", "id">>, <<"DELETE", "users">>>>,
          result |-> [kind |-> "Ok", id |-> NONE]]

\* ApiError::into_response: the HTTP status of each error kind.
HttpStatus(kind) ==
    CASE kind = "Ok" -> 200
      [] kind = "ValidationError" -> 400
      [] kind = "WrongPassword" -> 400
      [] kind = "Unauthorized" -> 401
      [] kind = "NotFound" -> 404
      [] kind = "AlreadyExists" -> 409
      [] kind = "NotModified" -> 304
      [] OTHER -> 500

\* Ids Uuid::new_v4() hands to new users.
NewUserIds == {"u5", "u6"}

RegisterPayloads ==
    [username : {"carol", "alice", "al"}, email : {NONE}, password : {"carolpass"},
     first_name : {NONE, "Carol"}, last_name : {NONE}]

CreateUserPayloads ==
    [username : {"carol", "dave"}, email : {NONE, "ann@example.org"},
     password : {"davepass1"}, first_name : {NONE}, last_name : {NONE}]

UserHandlerPatches ==
    UNION {{EmptyUserPatch(id),
            [EmptyUserPatch(id) EXCEPT !.first_name = "Ann"],
            [EmptyUserPatch(id) EXCEPT !.password = "newpass12"]}
           : id \in {"u_alice", "u5", UnknownUser}}
    \cup {[EmptyUserPatch("u5") EXCEPT !.username = "alice"],
          [EmptyUserPatch("u_alice") EXCEPT !.username = "carol"]}

HandleRegister ==
    \E p \in RegisterPayloads, id \in NewUserIds \ DOMAIN users :
        ServedUser("register", p, register(users, p, id, now))

HandleCreateUser ==
    \E p \in CreateUserPayloads, id \in NewUserIds \ DOMAIN users :
        ServedUser("create_user", p, create_user(users, p, id, now))

HandleUpdateUser ==
    \E p \in UserHandlerPatches :
        ServedUser("update_user", p, update_user(users, p, now))

HandleDeleteUser ==
    \E id \in {"u_alice", "u5", "u6", UnknownUser} :
        ServedUser("delete_user", [id |-> id], delete_user(users, id))

NextUsers ==
    \/ Tick
    \/ HandleRegister
    \/ HandleCreateUser
    \/ HandleUpdateUser
    \/ HandleDeleteUser

SpecUsers == Init /\ [][NextUsers]_vars

-----------------------------------------------------------------------------
(* Authentication: tokens, login, the authorize middleware, access control *)

\* Seconds a token lives (environment variable JWT_EXPIRATION_TIME).
JwtExpirationTime == 1

\* Tokens a run may issue.
MaxTokens == 1

\* The signing secret (environment variable JWT_SECRET).
JwtSecret == "secret"

\* Seconds of clock skew Validation::default() tolerates on exp.
Leeway == 60

\* The HS256 signature of a token's claims under a secret.
Sign(secret, sub, iat, exp) == <<"HS256", secret, sub, iat, exp>>

\* Mutant of ExpiryOk: no leeway, and exp itself is already too late.
ExpiryOk_Strict(exp, t) == exp > t

\* The exp check of Validation::default(): a token is expired once exp is
\* more than the leeway behind the clock.
ExpiryOk(exp, t) == ~(exp < t - Leeway)

\* utils::jwt::generate_jwt: claims iat, sub, exp signed with the secret.
generate_jwt(username, t) ==
    [sub |-> username, iat |-> t, exp |-> t + JwtExpirationTime,
     sig |-> Sign(JwtSecret, username, t, t + JwtExpirationTime)]

\* Mutant of decode_jwt: the signature is not checked.
decode_jwt_Unsigned(token, t) ==
    IF ExpiryOk(token.exp, t)
    THEN [kind |-> "Ok", claims |-> [sub |-> token.sub, iat |-> token.iat, exp |-> token.exp]]
    ELSE [kind |-> "Err", claims |-> NONE]

\* utils::jwt::decode_jwt with Validation::default(): the signature is
\* checked against the secret and exp against the clock.
decode_jwt(token, t) ==
    IF token.sig = Sign(JwtSecret, token.sub, token.iat, token.exp) /\ ExpiryOk(token.exp, t)
    THEN [kind |-> "Ok", claims |-> [sub |-> token.sub, iat |-> token.iat, exp |-> token.exp]]
    ELSE [kind |-> "Err", claims |-> NONE]

\* utils::jwt::validate_jwt: the same decode, the claims dropped.
validate_jwt(token, t) ==
    IF decode_jwt(token, t).kind = "Ok" THEN "Ok" ELSE "JWTError"

\* utils::hashing::verify_password: Ok(true) on a match, Err(WrongPassword)
\* on a mismatch or on a hash that does not parse.
verify_password(plain_password, hash) ==
    IF hash = encrypt_password(plain_password) THEN "Ok" ELSE "WrongPassword"

\* controllers::auth::login: the status, password_hash and role reads by
\* username, each with its early return, then the token.
login(utbl, p, t) ==
    LET ids == UserIdsNamed(utbl, p.username)
        out(kind, ss, tok) == [kind |-> kind, stmts |-> ss, token |-> tok]
        s1 == <<<<"SELECT", "status">>>>
        s2 == s1 \o <<<<"SELECT", "password_hash">>>>
        s3 == s2 \o <<<<"SELECT", "role">>>>
    IN  IF ids = {}
        THEN {out("NotFound", s1, NONE)}
        ELSE {IF utbl[u].status # "active"
              THEN out("Unauthorized", s1, NONE)
              ELSE IF verify_password(p.password, utbl[u].password_hash) # "Ok"
              THEN out("WrongPassword", s2, NONE)
              ELSE out("Ok", s3, generate_jwt(p.username, t))
              : u \in ids}

\* AccessControl::require_role
require_role(user, role) == user.role = role

\* AccessControl::require_any_role
require_any_role(user, roles) == user.role \in roles

\* AccessControl::from_request_parts: `extensions` holds the user the
\* middleware attached, if any; rejected when absent or not Active.
AccessControl_from_request_parts(extensions) ==
    IF extensions = {} THEN "Unauthorized"
    ELSE IF \E user \in extensions : user.status # "active" THEN "Unauthorized"
    ELSE "Ok"

\* Authorization header values.
MissingHeader == [kind |-> "missing", token |-> NONE]
NonAsciiHeader == [kind |-> "nonascii", token |-> NONE]
OneWordHeader == [kind |-> "oneword", token |-> NONE]
Bearer(token) == [kind |-> "bearer", token |-> token]

\* A token signed with another secret.
ForgedToken ==
    [sub |-> "root", iat |-> 1, exp |-> MaxTime + JwtExpirationTime,
     sig |-> Sign("other", "root", 1, MaxTime + JwtExpirationTime)]

\* A token issued so long before the run that it has expired.
StaleToken == generate_jwt("alice", 0 - JwtExpirationTime - Leeway - 1)

\* A token issued to a user whose row has been deleted since.
OrphanToken == generate_jwt("ghost", 1)

\* middlewares::authorization::authorize: the outcomes for one header.  A
\* header of a single word leaves `token` None and token.unwrap() panics.
authorize(header, utbl, t) ==
    CASE header.kind = "missing"  -> {[kind |-> "MissingToken", user |-> NONE]}
      [] header.kind = "nonascii" -> {[kind |-> "EmptyHeader", user |-> NONE]}
      [] header.kind = "oneword"  -> {[kind |-> "Panic", user |-> NONE]}
      [] OTHER ->
            LET d == decode_jwt(header.token, t)
            IN  IF d.kind # "Ok"
                THEN {[kind |-> "InvalidToken", user |-> NONE]}
                ELSE LET ids == UserIdsNamed(utbl, d.claims.sub)
                     IN  IF ids = {}
                         THEN {[kind |-> "DatabaseError", user |-> NONE]}
                         ELSE {[kind |-> "Next", user |-> u] : u \in ids}

\* routes::create_routes: the handlers behind the authorize layer.
AuthenticatedOps == {"create_ticket", "update_ticket", "delete_ticket", "delete_user"}

LoginPayloads ==
    {[username |-> "alice", password |-> "alicepass"],
     [username |-> "alice", password |-> "wrongpass"],
     [username |-> "mod", password |-> "modpass1"],
     [username |-> "bob", password |-> "bobpass1"],
     [username |-> "ghost", password |-> "ghostpass"]}

Headers == {MissingHeader, NonAsciiHeader, OneWordHeader, Bearer(ForgedToken),
            Bearer(StaleToken), Bearer(OrphanToken)}
               \cup {Bearer(k) : k \in tokens}

HttpCreatePayloads ==
    [title : {"Printer"}, description : {"Paper jams!"}, requester : {"alice", "root"}]

HttpTicketPatches ==
    {[EmptyTicketPatch("t1") EXCEPT !.title = "Scanner"],
     [EmptyTicketPatch("t1") EXCEPT !.requester = "u_root", !.status = "closed",
                                    !.closed_by = "u_mod", !.solution = "Replaced roller"]}

StatusPatches ==
    {[EmptyUserPatch("u_alice") EXCEPT !.status = "inactive"]}

\* The request as the log sees it.
HttpReq(op, payload, header, caller) ==
    [op |-> op, payload |-> payload, header |-> header, caller |-> caller]

\* The middleware answered; the handler never ran.
Rejected(op, header, a) ==
    /\ a.kind # "Next"
    /\ req' = HttpReq(op, NONE, header, NONE)
    /\ result' = [kind |-> a.kind, id |-> NONE]
    /\ stmts' = <<>>
    /\ UNCHANGED <<users, tickets, now, tokens>>

\* The middleware called the ticket handler, whose outcome is `o`.
RanOnTickets(op, payload, header, a, o) ==
    /\ a.kind = "Next"
    /\ req' = HttpReq(op, payload, header, a.user)
    /\ tickets' = o.db
    /\ stmts' = o.stmts
    /\ result' = o.result
    /\ UNCHANGED <<users, now, tokens>>

HttpLogin ==
    \E p \in LoginPayloads : \E o \in login(users, p, now) :
        /\ o.kind = "Ok" => Cardinality(tokens \cup {o.token}) <= MaxTokens
        /\ req' = [op |-> "login", payload |-> p]
        /\ result' = [kind |-> o.kind, id |-> NONE]
        /\ stmts' = o.stmts
        /\ tokens' = IF o.kind = "Ok" THEN tokens \cup {o.token} ELSE tokens
        /\ UNCHANGED <<users, tickets, now>>

HttpCreateTicket ==
    \E h \in Headers : \E a \in authorize(h, users, now) :
        \/ Rejected("create_ticket", h, a)
        \/ \E p \in HttpCreatePayloads, id \in TicketIds \ DOMAIN tickets :
             \E o \in create_ticket(tickets, users, p, id, now) :
                RanOnTickets("create_ticket", p, h, a, o)

HttpUpdateTicket ==
    \E h \in Headers : \E a \in authorize(h, users, now) :
        \/ Rejected("update_ticket", h, a)
        \/ \E p \in HttpTicketPatches :
                RanOnTickets("update_ticket", p, h, a, update_ticket(tickets, p, now))

HttpDeleteTicket ==
    \E h \in Headers : \E a \in authorize(h, users, now) :
        \/ Rejected("delete_ticket", h, a)
        \/ \E id \in TicketIds \cup {UnknownTicket} :
                RanOnTickets("delete_ticket", [id |-> id], h, a, delete_ticket(tickets, id))

HttpDeleteUser ==
    \E h \in Headers : \E a \in authorize(h, users, now) :
        \/ Rejected("delete_user", h, a)
        \/ \E id \in {UnknownUser} :
             LET o == delete_user(users, id)
             IN  /\ a.kind = "Next"
                 /\ req' = HttpReq("delete_user", [id |-> id], h, a.user)
                 /\ users' = o.db
                 /\ stmts' = o.stmts
                 /\ result' = o.result
                 /\ UNCHANGED <<tickets, now, tokens>>

\* User::update called with a status patch (an account is suspended or restored).
CallUserUpdate ==
    \E p \in StatusPatches :
        ServedUser("User::update", p, UserRepositoryImpl_update(users, p, now))

NextHttp ==
    \/ Tick
    \/ HttpLogin
    \/ HttpCreateTicket
    \/ HttpUpdateTicket
    \/ HttpDeleteTicket
    \/ HttpDeleteUser
    \/ CallUserUpdate

SpecHttp == Init /\ [][NextHttp]_vars

-----------------------------------------------------------------------------
(* Tokens alone: issued, aged and verified *)

\* The last instant the clock of the token runs reaches.
MaxClock == MaxTime + JwtExpirationTime + Leeway + 1

\* The users login issues tokens for.
TokenSubjects == {u \in DOMAIN InitUsers : InitUsers[u].status = "active" /\ InitUsers[u].role # "admin"}

\* A token whose payload was changed after signing, or signed with another secret.
Altered(k) ==
    {[k EXCEPT !.sub = "root"],
     [k EXCEPT !.exp = k.exp + Leeway + 1],
     [k EXCEPT !.sig = Sign("other", k.sub, k.iat, k.exp)]}

\* str::parse::<i64> on a text given as its characters: {n} for Ok(n), {}
\* for Err (the text is empty or holds anything but digits).
DigitValue ==
    ("0" :> 0) @@ ("1" :> 1) @@ ("2" :> 2) @@ ("3" :> 3) @@ ("4" :> 4) @@
    ("5" :> 5) @@ ("6" :> 6) @@ ("7" :> 7) @@ ("8" :> 8) @@ ("9" :> 9)

RECURSIVE ParseDigits(_, _)
ParseDigits(chars, acc) ==
    IF chars = <<>> THEN {acc}
    ELSE IF Head(chars) \notin DOMAIN DigitValue THEN {}
    ELSE ParseDigits(Tail(chars), 10 * acc + DigitValue[Head(chars)])

parse_seconds(chars) == IF chars = <<>> THEN {} ELSE ParseDigits(chars, 0)

\* The process environment the token functions read: each variable is the
\* set holding its value, empty when the variable is unset.
ConfiguredEnv ==
    [JWT_SECRET |-> {JwtSecret}, JWT_EXPIRATION_TIME |-> {<<ToString(JwtExpirationTime)>>}]

Environments ==
    [JWT_SECRET : {{JwtSecret}, {}},
     JWT_EXPIRATION_TIME : {ConfiguredEnv.JWT_EXPIRATION_TIME, {}, {<<"1", "h">>}, {<<>>}}]

\* The seconds the environment's TTL parses to, if it is set and a number.
EnvSeconds(env) == UNION {parse_seconds(v) : v \in env.JWT_EXPIRATION_TIME}

\* utils::jwt::generate_jwt reading its two variables: each env::var and the
\* parse end in .expect(), which panics on Err; otherwise the signed token.
generate_jwt_from_env(env, username, t) ==
    IF env.JWT_EXPIRATION_TIME = {} THEN [kind |-> "Panic", token |-> {}]
    ELSE IF EnvSeconds(env) = {} THEN [kind |-> "Panic", token |-> {}]
    ELSE IF env.JWT_SECRET = {} THEN [kind |-> "Panic", token |-> {}]
    ELSE [kind |-> "Ok",
          token |-> {[sub |-> username, iat |-> t, exp |-> t + d,
                      sig |-> Sign(secret, username, t, t + d)]
                        : d \in EnvSeconds(env), secret \in env.JWT_SECRET}]

\* login's call of generate_jwt under any environment.
IssueTokenFromEnv ==
    /\ now <= MaxTime
    /\ tokens = {}
    /\ \E u \in TokenSubjects : \E env \in Environments :
          LET g == generate_jwt_from_env(env, users[u].username, now)
          IN  /\ tokens' = g.token
              /\ req' = [op |-> "generate_jwt",
                         payload |-> [username |-> users[u].username, role |-> users[u].role,
                                      env |-> env]]
              /\ result' = [kind |-> g.kind, id |-> NONE]
    /\ stmts' = <<>>
    /\ UNCHANGED <<users, tickets, now>>

\* login's call generate_jwt(&payload.username, &user_role).
IssueToken ==
    /\ now <= MaxTime
    /\ tokens = {}
    /\ \E u \in TokenSubjects :
          /\ tokens' = {generate_jwt(users[u].username, now)}
          /\ req' = [op |-> "generate_jwt",
                     payload |-> [username |-> users[u].username, role |-> users[u].role]]
          /\ result' = [kind |-> "Ok", id |-> NONE]
    /\ stmts' = <<>>
    /\ UNCHANGED <<users, tickets, now>>

\* Time passes.
Elapse ==
    /\ \E d \in {1, Leeway} :
          /\ now + d <= MaxClock
          /\ now' = now + d
    /\ req' = [op |-> "tick", payload |-> NONE]
    /\ result' = [kind |-> "Ok", id |-> NONE]
    /\ stmts' = <<>>
    /\ UNCHANGED <<users, tickets, tokens>>

\* decode_jwt on an issued token or on an altered one.
DecodeToken ==
    /\ \E k \in tokens : \E v \in {k} \cup Altered(k) :
          LET d == decode_jwt(v, now)
          IN  /\ req' = [op |-> "decode_jwt", payload |-> v]
              /\ result' = [kind |-> d.kind, id |-> NONE, claims |-> d.claims]
    /\ stmts' = <<>>
    /\ UNCHANGED <<users, tickets, now, tokens>>

\* validate_jwt on an issued token or on an altered one.
ValidateToken ==
    /\ \E k \in tokens : \E v \in {k} \cup Altered(k) :
          /\ req' = [op |-> "validate_jwt", payload |-> v]
          /\ result' = [kind |-> validate_jwt(v, now), id |-> NONE]
    /\ stmts' = <<>>
    /\ UNCHANGED <<users, tickets, now, tokens>>

NextJwt ==
    \/ IssueToken
    \/ IssueTokenFromEnv
    \/ Elapse
    \/ DecodeToken
    \/ ValidateToken

SpecJwt == Init /\ [][NextJwt]_vars

-----------------------------------------------------------------------------
(* Export: a ticket, or every ticket, formatted for download *)

\* impl ToString for TicketStatus
TicketStatus_to_string(s) ==
    CASE s = "open" -> "Open"
      [] s = "inprogress" -> "InProgress"
      [] s = "closed" -> "Closed"
      [] s = "reopened" -> "Reopened"
      [] s = "paused" -> "Paused"
      [] s = "cancelled" -> "Cancelled"

\* NaiveDateTime::format("%Y-%m-%d %H:%M:%S").to_string()
FormatTime(t) == "2024-01-01 00:00:0" \o ToString(t)

\* Ticket::find_by_id as the export handlers use it: the row as a Ticket
\* whose requester and closed_by are still ids.
Ticket_find_by_id(tbl, id) == {[id |-> t] @@ tbl[t] : t \in DOMAIN tbl \cap {id}}

\* Ticket::find_all as tickets_to_csv uses it: every row as a Ticket.
Ticket_find_all(tbl) == {[id |-> t] @@ tbl[t] : t \in DOMAIN tbl}

\* The TicketView the three handlers build once the two usernames are known:
\* absent solution and closed_at become "null", timestamps are formatted.
TicketView_of(ticket, requester_username, closed_by_username) ==
    [id |-> ticket.id,
     title |-> ticket.title,
     description |-> ticket.description,
     requester |-> requester_username,
     status |-> TicketStatus_to_string(ticket.status),
     closed_by |-> closed_by_username,
     solution |-> IF ticket.solution = NONE THEN "null" ELSE ticket.solution,
     created_at |-> FormatTime(ticket.created_at),
     updated_at |-> FormatTime(ticket.updated_at),
     closed_at |-> IF ticket.closed_at = NullTime THEN "null"
                   ELSE FormatTime(ticket.closed_at)]

\* The formatting block of ticket_to_pdf: the ticket or NotFound, its
\* requester's username or NotFound, its closer's username ("null" when
\* closed_by is None) or NotFound, then the view.
pdf_formatted_ticket(tbl, utbl, id) ==
    IF Ticket_find_by_id(tbl, id) = {}
    THEN [kind |-> "NotFound", view |-> NONE]
    ELSE LET ticket == CHOOSE t \in Ticket_find_by_id(tbl, id) : TRUE
         IN  IF User_find_by_id(utbl, ticket.requester) = {}
             THEN [kind |-> "NotFound", view |-> NONE]
             ELSE IF ticket.closed_by # NONE /\ User_find_by_id(utbl, ticket.closed_by) = {}
             THEN [kind |-> "NotFound", view |-> NONE]
             ELSE [kind |-> "Ok",
                   view |-> TicketView_of(ticket, utbl[ticket.requester].username,
                                IF ticket.closed_by = NONE THEN "null"
                                ELSE utbl[ticket.closed_by].username)]

\* The formatting block of ticket_to_csv, the same statements as the PDF one.
csv_formatted_ticket(tbl, utbl, id) ==
    IF Ticket_find_by_id(tbl, id) = {}
    THEN [kind |-> "NotFound", view |-> NONE]
    ELSE LET ticket == CHOOSE t \in Ticket_find_by_id(tbl, id) : TRUE
         IN  IF User_find_by_id(utbl, ticket.requester) = {}
             THEN [kind |-> "NotFound", view |-> NONE]
             ELSE IF ticket.closed_by # NONE /\ User_find_by_id(utbl, ticket.closed_by) = {}
             THEN [kind |-> "NotFound", view |-> NONE]
             ELSE [kind |-> "Ok",
                   view |-> TicketView_of(ticket, utbl[ticket.requester].username,
                                IF ticket.closed_by = NONE THEN "null"
                                ELSE utbl[ticket.closed_by].username)]

\* The username tickets_to_csv shows for a user id: "null" when the lookup
\* finds no row.
UsernameOrNull(utbl, id) ==
    IF User_find_by_id(utbl, id) = {} THEN "null" ELSE utbl[id].username

\* The loop of tickets_to_csv: one view per ticket, no ticket dropped.
all_ticket_views(tbl, utbl) ==
    {TicketView_of(ticket, UsernameOrNull(utbl, ticket.requester),
                   IF ticket.closed_by = NONE THEN "null"
                   ELSE UsernameOrNull(utbl, ticket.closed_by))
        : ticket \in Ticket_find_all(tbl)}

\* export::pdf::create_ticket_pdf: the ten values at their fixed places on
\* the page.
create_ticket_pdf(v) ==
    [Ticket |-> v.id, Requester |-> v.requester, Created_at |-> v.created_at,
     Status |-> v.status, Title |-> v.title, Description |-> v.description,
     Closed_by |-> v.closed_by, Closed_at |-> v.closed_at,
     Solution |-> v.solution, Updated_at |-> v.updated_at]

\* The header record of the CSV.
CsvHeader ==
    <<"Ticket", "Updated at", "Requester", "Created at", "Status", "Title",
      "Description", "Closed by", "Closed at", "Solution">>

\* The data record of one ticket, in the header's column order.
CsvRecord(v) ==
    <<v.id, v.updated_at, v.requester, v.created_at, v.status, v.title,
      v.description, v.closed_by, v.closed_at, v.solution>>

\* export::csv::create_tickets_csv: the header, then one record per ticket
\* (the records as a set: the query that lists the tickets has no ORDER BY).
create_tickets_csv(views) == [header |-> CsvHeader, records |-> {CsvRecord(v) : v \in views}]

\* controllers::export::ticket_to_pdf
ticket_to_pdf(tbl, utbl, id) ==
    LET f == pdf_formatted_ticket(tbl, utbl, id)
    IN  IF f.kind # "Ok"
        THEN [kind |-> f.kind, id |-> NONE, content_type |-> NONE, body |-> NONE]
        ELSE [kind |-> "Ok", id |-> NONE, content_type |-> "application/pdf",
              body |-> create_ticket_pdf(f.view)]

\* controllers::export::ticket_to_csv
ticket_to_csv(tbl, utbl, id) ==
    LET f == csv_formatted_ticket(tbl, utbl, id)
    IN  IF f.kind # "Ok"
        THEN [kind |-> f.kind, id |-> NONE, content_type |-> NONE, body |-> NONE]
        ELSE [kind |-> "Ok", id |-> NONE, content_type |-> "application/csv",
              body |-> create_tickets_csv({f.view})]

\* controllers::export::tickets_to_csv
tickets_to_csv(tbl, utbl) ==
    [kind |-> "Ok", id |-> NONE, content_type |-> "application/csv",
     body |-> create_tickets_csv(all_ticket_views(tbl, utbl))]

\* The stores the exports start from: a ticket of the lifecycle's rows
\* requested by alice, and one requested by root that nobody closed.
InitExport ==
    /\ users = InitUsers
    /\ tickets \in {("t1" :> r) @@ ("t2" :> Ticket_new("Monitor", "No signal at all", "u_root", 1))
                    : r \in TicketRows}
    /\ now = 1
    /\ req = [op |-> "init", payload |-> NONE]
    /\ result = [kind |-> "Ok", id |-> NONE]
    /\ stmts = <<>>
    /\ tokens = {}

\* The answer `o` of an export handler; nothing is written.
Exported(op, payload, o) ==
    /\ req' = [op |-> op, payload |-> payload]
    /\ result' = o
    /\ stmts' = <<>>
    /\ UNCHANGED <<users, tickets, now, tokens>>

ExportTargets == {"t1", "t2", UnknownTicket}

ExportTicketPdf ==
    \E id \in ExportTargets :
        Exported("ticket_to_pdf", [id |-> id], ticket_to_pdf(tickets, users, id))

ExportTicketCsv ==
    \E id \in ExportTargets :
        Exported("ticket_to_csv", [id |-> id], ticket_to_csv(tickets, users, id))

ExportTicketsCsv ==
    Exported("tickets_to_csv", NONE, tickets_to_csv(tickets, users))

\* delete_user removes an account that tickets may still name.
ExportDeleteUser ==
    \E id \in {"u_alice", "u_mod"} :
        ServedUser("delete_user", [id |-> id], delete_user(users, id))

NextExport ==
    \/ ExportTicketPdf
    \/ ExportTicketCsv
    \/ ExportTicketsCsv
    \/ ExportDeleteUser

SpecExport == InitExport /\ [][NextExport]_vars

-----------------------------------------------------------------------------
(* Handlers statement by statement: two tasks serve one request each, and   *)
(* every SQL statement is one step on the shared store.  Here `req` maps a  *)
(* task to its request, its position `pc` in the handler and the handler's  *)
(* locals; `result` maps it to its answer ("Pending" until it returns) and  *)
(* `stmts` to the statements it has executed, <<verb, what, rows>>.         *)

Tasks == {"a", "b"}

Idle == [op |-> "idle", payload |-> [id |-> NONE], pc |-> "done", updated |-> FALSE,
         prev |-> NONE]

Pending == [kind |-> "Pending", id |-> NONE]

\* Rows a statement with `WHERE id = $n` touches.
RowsAffected(tbl, id) == IF id \in DOMAIN tbl THEN 1 ELSE 0

\* Task k moves to `r`, answers `res` and has executed `entry`.
Moved(k, r, res, entry) ==
    /\ req' = [req EXCEPT ![k] = r]
    /\ result' = [result EXCEPT ![k] = res]
    /\ stmts' = [stmts EXCEPT ![k] = Append(@, entry)]

\* Task k returned `res` without executing a statement.
Returned(k, res) ==
    /\ req' = [req EXCEPT ![k].pc = "done"]
    /\ result' = [result EXCEPT ![k] = res]
    /\ UNCHANGED stmts

\* The statements of update_ticket in program order; "finish" is the
\* `if updated { UPDATE updated_at } else { NotModified }` tail.
TicketUpdateOrder ==
    <<"exists", "title", "description", "requester", "status_read", "status",
      "closed_at", "closed_by", "solution", "finish">>

\* Mutant of TicketStatementIssued: the solution statement is never issued.
TicketStatementIssued_NoSolution(p, pc, prev) ==
    CASE pc \in {"title", "description", "requester", "closed_by"} -> p[pc] # NONE
      [] pc \in {"status_read", "status"} -> p.status # NONE
      [] pc = "closed_at" -> /\ p.status # NONE
                             /\ IsTerminal(p.status)
                             /\ prev # NONE
                             /\ ClosedAtGuard(prev)
      [] pc = "solution" -> FALSE
      [] OTHER -> TRUE

\* Mutant of TicketStatementIssued: the closed_at statement is never issued.
TicketStatementIssued_NoStamp(p, pc, prev) ==
    CASE pc \in {"title", "description", "requester", "closed_by", "solution"} -> p[pc] # NONE
      [] pc \in {"status_read", "status"} -> p.status # NONE
      [] pc = "closed_at" -> FALSE
      [] OTHER -> TRUE

\* Whether update_ticket issues the statement at `pc` for patch p, given the
\* previous status it has read.
TicketStatementIssued(p, pc, prev) ==
    CASE pc \in {"title", "description", "requester", "closed_by", "solution"} -> p[pc] # NONE
      [] pc \in {"status_read", "status"} -> p.status # NONE
      [] pc = "closed_at" -> /\ p.status # NONE
                             /\ IsTerminal(p.status)
                             /\ prev # NONE
                             /\ ClosedAtGuard(prev)
      [] OTHER -> TRUE

\* The position in `order` a handler reaches after the statement at `pc`,
\* `issued` being the statements it issues.
PcAfter(order, issued, pc) ==
    LET i == CHOOSE n \in 1..Len(order) : order[n] = pc
        j == CHOOSE n \in (i + 1)..Len(order) :
                 /\ order[n] \in issued
                 /\ \A m \in (i + 1)..(n - 1) : order[m] \notin issued
    IN  order[j]

TicketPcAfter(p, pc, prev) ==
    PcAfter(TicketUpdateOrder,
            {TicketUpdateOrder[n] : n \in {m \in 1..Len(TicketUpdateOrder) :
                                            TicketStatementIssued(p, TicketUpdateOrder[m], prev)}},
            pc)

\* One statement of controllers::ticket::update_ticket.
StepUpdateTicket(k) ==
    LET r == req[k]
        p == r.payload
        rows == RowsAffected(tickets, p.id)
    IN  /\ r.op = "update_ticket"
        /\ UNCHANGED <<users, now, tokens>>
        /\ \/ /\ r.pc = "exists"
              /\ ~ticket_exists(tickets, p.id)
              /\ Moved(k, [r EXCEPT !.pc = "done"], [kind |-> "NotFound", id |-> NONE],
                       <<"SELECT", "id", rows>>)
              /\ UNCHANGED tickets
           \/ /\ r.pc = "exists"
              /\ ticket_exists(tickets, p.id)
              /\ Moved(k, [r EXCEPT !.pc = TicketPcAfter(p, "exists", NONE)], Pending,
                       <<"SELECT", "id", rows>>)
              /\ UNCHANGED tickets
           \/ /\ r.pc \in {"title", "description", "requester", "closed_by", "solution"}
              /\ tickets' = UpdateCol(tickets, p.id, r.pc, p[r.pc])
              /\ Moved(k, [r EXCEPT !.pc = TicketPcAfter(p, r.pc, r.prev), !.updated = TRUE],
                       Pending, <<"UPDATE", r.pc, rows>>)
           \/ /\ r.pc = "status_read"
              /\ Moved(k, [r EXCEPT !.pc = "status",
                                    !.prev = IF p.id \in DOMAIN tickets
                                             THEN tickets[p.id].status ELSE NONE],
                       Pending, <<"SELECT", "status", rows>>)
              /\ UNCHANGED tickets
           \/ /\ r.pc = "status"
              /\ tickets' = UpdateCol(tickets, p.id, "status", p.status)
              /\ Moved(k, [r EXCEPT !.pc = TicketPcAfter(p, "status", r.prev),
                                    !.updated = TicketPcAfter(p, "status", r.prev) # "closed_at"
                                                \/ r.updated],
                       Pending, <<"UPDATE", "status", rows>>)
           \/ /\ r.pc = "closed_at"
              /\ tickets' = UpdateCol(tickets, p.id, "closed_at", now)
              /\ Moved(k, [r EXCEPT !.pc = TicketPcAfter(p, "closed_at", r.prev),
                                    !.updated = TRUE],
                       Pending, <<"UPDATE", "closed_at", rows>>)
           \/ /\ r.pc = "finish"
              /\ r.updated
              /\ tickets' = UpdateCol(tickets, p.id, "updated_at", now)
              /\ Moved(k, [r EXCEPT !.pc = "done"], [kind |-> "Ok", id |-> p.id],
                       <<"UPDATE", "updated_at", rows>>)
           \/ /\ r.pc = "finish"
              /\ ~r.updated
              /\ Returned(k, [kind |-> "NotModified", id |-> NONE])
              /\ UNCHANGED tickets

\* One statement of controllers::ticket::delete_ticket.
StepDeleteTicket(k) ==
    LET r == req[k]
        id == r.payload.id
        rows == RowsAffected(tickets, id)
    IN  /\ r.op = "delete_ticket"
        /\ UNCHANGED <<users, now, tokens>>
        /\ \/ /\ r.pc = "exists"
              /\ ~ticket_exists(tickets, id)
              /\ Moved(k, [r EXCEPT !.pc = "done"], [kind |-> "NotFound", id |-> NONE],
                       <<"SELECT", "id", rows>>)
              /\ UNCHANGED tickets
           \/ /\ r.pc = "exists"
              /\ ticket_exists(tickets, id)
              /\ Moved(k, [r EXCEPT !.pc = "delete"], Pending, <<"SELECT", "id", rows>>)
              /\ UNCHANGED tickets
           \/ /\ r.pc = "delete"
              /\ tickets' = DeleteRow(tickets, id)
              /\ Moved(k, [r EXCEPT !.pc = "done"], [kind |-> "Ok", id |-> NONE],
                       <<"DELETE", "tickets", rows>>)

\* The id Uuid::now_v7() gives the ticket task k creates.
NewTicketId(k) == IF k = "a" THEN "t3" ELSE "t4"

\* One statement of controllers::ticket::create_ticket: the requester's id
\* by username (fetch_one), then the INSERT of Ticket::new.
StepCreateTicket(k) ==
    LET r == req[k]
        p == r.payload
    IN  /\ r.op = "create_ticket"
        /\ UNCHANGED <<users, now, tokens>>
        /\ \/ /\ r.pc = "requester_id"
              /\ UserIdsNamed(users, p.requester) = {}
              /\ Moved(k, [r EXCEPT !.pc = "done"], [kind |-> "DatabaseError", id |-> NONE],
                       <<"SELECT", "users.id", 0>>)
              /\ UNCHANGED tickets
           \/ /\ r.pc = "requester_id"
              /\ \E u \in UserIdsNamed(users, p.requester) :
                    Moved(k, [r EXCEPT !.pc = "insert", !.prev = u], Pending,
                          <<"SELECT", "users.id", 1>>)
              /\ UNCHANGED tickets
           \/ /\ r.pc = "insert"
              /\ tickets' = InsertRow(tickets, NewTicketId(k),
                                      Ticket_new(p.title, p.description, r.prev, now))
              /\ Moved(k, [r EXCEPT !.pc = "done"], [kind |-> "Ok", id |-> NewTicketId(k)],
                       <<"INSERT", "tickets", 1>>)

\* The statements of update_user in program order.
UserUpdateOrder ==
    <<"exists", "username", "email", "password", "first_name", "last_name", "finish">>

\* Whether update_user issues the statement at `pc` for patch p.
UserStatementIssued(p, pc) ==
    CASE pc \in {"username", "email", "password", "first_name", "last_name"} -> p[pc] # NONE
      [] OTHER -> TRUE

UserPcAfter(p, pc) ==
    PcAfter(UserUpdateOrder,
            {UserUpdateOrder[n] : n \in {m \in 1..Len(UserUpdateOrder) :
                                          UserStatementIssued(p, UserUpdateOrder[m])}},
            pc)

\* One statement of controllers::user::update_user.
StepUpdateUser(k) ==
    LET r == req[k]
        p == r.payload
        rows == RowsAffected(users, p.id)
    IN  /\ r.op = "update_user"
        /\ UNCHANGED <<tickets, now, tokens>>
        /\ \/ /\ r.pc = "exists"
              /\ ~user_exists(users, p.id)
              /\ Moved(k, [r EXCEPT !.pc = "done"], [kind |-> "NotFound", id |-> NONE],
                       <<"SELECT", "id", rows>>)
              /\ UNCHANGED users
           \/ /\ r.pc = "exists"
              /\ user_exists(users, p.id)
              /\ Moved(k, [r EXCEPT !.pc = UserPcAfter(p, "exists")], Pending,
                       <<"SELECT", "id", rows>>)
              /\ UNCHANGED users
           \/ /\ r.pc = "username"
              /\ UsernameUpdateRejected(users, p)
              /\ Moved(k, [r EXCEPT !.pc = "done"], [kind |-> "DatabaseError", id |-> NONE],
                       <<"REJECTED", "username", 0>>)
              /\ UNCHANGED users
           \/ /\ r.pc = "username"
              /\ ~UsernameUpdateRejected(users, p)
              /\ users' = UpdateCol(users, p.id, "username", p.username)
              /\ Moved(k, [r EXCEPT !.pc = UserPcAfter(p, r.pc), !.updated = TRUE],
                       Pending, <<"UPDATE", "username", rows>>)
           \/ /\ r.pc \in {"email", "first_name", "last_name"}
              /\ users' = UpdateCol(users, p.id, r.pc, p[r.pc])
              /\ Moved(k, [r EXCEPT !.pc = UserPcAfter(p, r.pc), !.updated = TRUE],
                       Pending, <<"UPDATE", r.pc, rows>>)
           \/ /\ r.pc = "password"
              /\ users' = UpdateCol(users, p.id, "password_hash", encrypt_password(p.password))
              /\ Moved(k, [r EXCEPT !.pc = UserPcAfter(p, r.pc), !.updated = TRUE],
                       Pending, <<"UPDATE", "password_hash", rows>>)
           \/ /\ r.pc = "finish"
              /\ r.updated
              /\ users' = UpdateCol(users, p.id, "updated_at", now)
              /\ Moved(k, [r EXCEPT !.pc = "done"], [kind |-> "Ok", id |-> p.id],
                       <<"UPDATE", "updated_at", rows>>)
           \/ /\ r.pc = "finish"
              /\ ~r.updated
              /\ Returned(k, [kind |-> "NotModified", id |-> NONE])
              /\ UNCHANGED users

\* The id Uuid::new_v4() gives the user task k registers.
NewUserId(k) == IF k = "a" THEN "u5" ELSE "u6"

\* One statement of controllers::auth::register: the is_user_unique probe,
\* then the INSERT of User::create, which the unique key may reject.
StepRegister(k) ==
    LET r == req[k]
        p == r.payload
        found == Cardinality(UserIdsNamed(users, p.username))
    IN  /\ r.op = "register"
        /\ UNCHANGED <<tickets, now, tokens>>
        /\ \/ /\ r.pc = "is_unique"
              /\ ~is_user_unique(users, p.username)
              /\ Moved(k, [r EXCEPT !.pc = "done"], [kind |-> "AlreadyExists", id |-> NONE],
                       <<"SELECT", "username", found>>)
              /\ UNCHANGED users
           \/ /\ r.pc = "is_unique"
              /\ is_user_unique(users, p.username)
              /\ Moved(k, [r EXCEPT !.pc = "insert"], Pending, <<"SELECT", "username", found>>)
              /\ UNCHANGED users
           \/ /\ r.pc = "insert"
              /\ LET o == User_create(users, CreateUserPayload_from(p), NewUserId(k), now)
                 IN  /\ users' = o.db
                     /\ Moved(k, [r EXCEPT !.pc = "done"], o.result,
                              <<o.stmts[1][1], "users", IF o.result.kind = "Ok" THEN 1 ELSE 0>>)

\* The user patches the tasks apply to alice.
RaceUserPatches ==
    {EmptyUserPatch("u_alice"),
     [EmptyUserPatch("u_alice") EXCEPT !.username = "carol"],
     [EmptyUserPatch("u_alice") EXCEPT !.first_name = "Ann"],
     [EmptyUserPatch("u_alice") EXCEPT !.password = "newpass12", !.last_name = "Lee"]}

\* The registration both tasks may send.
RaceRegistration ==
    [username |-> "carol", email |-> NONE, password |-> "carolpass",
     first_name |-> NONE, last_name |-> NONE]

\* A store failure was injected into task k.
Failed(k) == \E i \in 1..Len(stmts[k]) : stmts[k][i][1] = "FAILED"

\* Mutant of StatementFails: the error is logged and the handler goes on.
StatementFails_Swallowed(k) ==
    /\ req[k].op = "update_ticket"
    /\ req[k].pc \notin {"done", "finish"}
    /\ \A j \in Tasks : ~Failed(j)
    /\ Moved(k, [req[k] EXCEPT !.pc = TicketPcAfter(req[k].payload, req[k].pc, req[k].prev)],
             Pending, <<"FAILED", req[k].pc, 0>>)
    /\ UNCHANGED <<users, tickets, now, tokens>>

\* The store fails the statement task k is about to execute: `.await?`
\* returns DatabaseError and nothing is written.  One failure per run.
StatementFails(k) ==
    /\ req[k].pc # "done"
    /\ ~(req[k].pc = "finish" /\ ~req[k].updated)
    /\ \A j \in Tasks : ~Failed(j)
    /\ Moved(k, [req[k] EXCEPT !.pc = "done"], [kind |-> "DatabaseError", id |-> NONE],
             <<"FAILED", req[k].pc, 0>>)
    /\ UNCHANGED <<users, tickets, now, tokens>>

\* The ticket patches the tasks apply to ticket t1.
RacePatches ==
    {EmptyTicketPatch("t1"),
     [EmptyTicketPatch("t1") EXCEPT !.title = BadTitle],
     [EmptyTicketPatch("t1") EXCEPT !.title = "Printer 2"],
     [EmptyTicketPatch("t1") EXCEPT !.title = "Scanner"],
     [EmptyTicketPatch("t1") EXCEPT !.status = "reopened"],
     [EmptyTicketPatch("t1") EXCEPT !.status = "closed", !.closed_by = "u_mod",
                                    !.solution = "Roller replaced"]}

\* A task takes a request: payload.validate() runs here, the first
\* statement is still to come.
Accept(k) ==
    /\ req[k].op = "idle"
    /\ stmts' = stmts
    /\ UNCHANGED <<users, tickets, now, tokens>>
    /\ \/ \E p \in RacePatches :
             IF UpdateTicketPayload_validate(p)
             THEN /\ req' = [req EXCEPT ![k] = [op |-> "update_ticket", payload |-> p,
                                               pc |-> "exists", updated |-> FALSE,
                                               prev |-> NONE]]
                  /\ result' = [result EXCEPT ![k] = Pending]
             ELSE /\ req' = [req EXCEPT ![k] = [op |-> "update_ticket", payload |-> p,
                                               pc |-> "done", updated |-> FALSE,
                                               prev |-> NONE]]
                  /\ result' = [result EXCEPT ![k] = [kind |-> "ValidationError", id |-> NONE]]
       \/ /\ req' = [req EXCEPT ![k] = [op |-> "delete_ticket", payload |-> [id |-> "t1"],
                                        pc |-> "exists", updated |-> FALSE, prev |-> NONE]]
          /\ result' = [result EXCEPT ![k] = Pending]
       \/ \E p \in {[title |-> "Monitor", description |-> "No signal at all",
                     requester |-> "alice"]} :
             /\ CreateTicketPayload_validate(p)
             /\ req' = [req EXCEPT ![k] = [op |-> "create_ticket", payload |-> p,
                                           pc |-> "requester_id", updated |-> FALSE,
                                           prev |-> NONE]]
             /\ result' = [result EXCEPT ![k] = Pending]
       \/ \E p \in RaceUserPatches :
             /\ UpdateUserPayload_validate(p)
             /\ req' = [req EXCEPT ![k] = [op |-> "update_user", payload |-> p,
                                           pc |-> "exists", updated |-> FALSE,
                                           prev |-> NONE]]
             /\ result' = [result EXCEPT ![k] = Pending]
       \/ /\ RegisterPayload_validate(RaceRegistration)
          /\ req' = [req EXCEPT ![k] = [op |-> "register", payload |-> RaceRegistration,
                                        pc |-> "is_unique", updated |-> FALSE,
                                        prev |-> NONE]]
          /\ result' = [result EXCEPT ![k] = Pending]

\* The rows of t1 the tasks start from: as created, and as closed earlier.
RaceRows ==
    {Ticket_new("Printer", "Paper jams!", "u_alice", 1),
     [Ticket_new("Printer", "Paper jams!", "u_alice", 1)
        EXCEPT !.status = "closed", !.closed_by = "u_mod", !.closed_at = 1]}

InitRace ==
    /\ users = InitUsers
    /\ tickets \in {("t1" :> r) : r \in RaceRows}
    /\ now = MaxTime
    /\ req = [k \in Tasks |-> Idle]
    /\ result = [k \in Tasks |-> [kind |-> "Ok", id |-> NONE]]
    /\ stmts = [k \in Tasks |-> <<>>]
    /\ tokens = {}

NextRace ==
    \E k \in Tasks :
        \/ Accept(k)
        \/ StepUpdateTicket(k)
        \/ StepDeleteTicket(k)
        \/ StepCreateTicket(k)
        \/ StepUpdateUser(k)
        \/ StepRegister(k)
        \/ StatementFails(k)

SpecRace == InitRace /\ [][NextRace]_vars

-----------------------------------------------------------------------------
(* Claims *)

\* The last step was a partial update of a ticket / of a user.
TicketUpdateOps == {"Ticket::update", "update_ticket"}
UserUpdateOps == {"User::update", "update_user"}

\* C1: a repository update whose patch has every optional field absent
\* returns NotModified and issues no write statement: both tables, every
\* column including updated_at, are after the call what they were before it.
C1_EmptyPatchNotModified ==
    [][ /\ (req'.op = "Ticket::update" /\ Supplied(req'.payload) = {})
            => /\ result'.kind = "NotModified"
               /\ Writes(stmts') = <<>>
               /\ tickets' = tickets /\ users' = users
        /\ (req'.op = "User::update" /\ SuppliedUser(req'.payload) = {})
            => /\ result'.kind = "NotModified"
               /\ Writes(stmts') = <<>>
               /\ tickets' = tickets /\ users' = users ]_vars

\* C1 witness: an empty ticket patch was applied to a ticket that exists.
C1_Witness ==
    /\ req.op = "Ticket::update"
    /\ req.payload = EmptyTicketPatch("t1")
    /\ "t1" \in DOMAIN tickets
    /\ result.kind = "NotModified"

\* The last step updated an existing ticket and succeeded.
UpdatedOk(id) ==
    /\ req'.op \in TicketUpdateOps
    /\ req'.payload.id = id
    /\ id \in DOMAIN tickets
    /\ result'.kind = "Ok"

\* C2: a successful update supplying status = Closed to an Open ticket with a
\* null closed_at leaves closed_at non-null, and a successful update that
\* does not supply status leaves closed_at as it was before that update.
C2_ClosedAtSetThenKept ==
    [][ \A id \in TicketIds :
          UpdatedOk(id) =>
            /\ (/\ tickets[id].status = "open"
                /\ tickets[id].closed_at = NullTime
                /\ req'.payload.status = "closed")
                   => tickets'[id].closed_at # NullTime
            /\ req'.payload.status = NONE
                   => tickets'[id].closed_at = tickets[id].closed_at ]_vars

\* C2 witness: a title-only update succeeded on a ticket closed earlier.
C2_Witness ==
    /\ req.op \in TicketUpdateOps
    /\ Supplied(req.payload) = {"title"}
    /\ result.kind = "Ok"
    /\ req.payload.id \in DOMAIN tickets
    /\ tickets[req.payload.id].status = "closed"
    /\ tickets[req.payload.id].closed_at # NullTime

\* The value the read of the previous status returned in the last step.
PreviousStatusRead == {s[3] : s \in {x \in {stmts[i] : i \in DOMAIN stmts} : x[1] = "SELECT" /\ x[2] = "status"}}

\* The last step wrote closed_at.
WroteClosedAt == \E i \in DOMAIN stmts : stmts[i] = <<"UPDATE", "closed_at">>

\* C3 (as claimed): closed_at is written only by an update that moves the
\* status from a non-terminal status into Closed or Cancelled; an update
\* supplying Closed or Cancelled to a ticket already Closed or Cancelled
\* does not write closed_at.
C3_ClosedAtOnlyOnFirstClose ==
    (req.op \in TicketUpdateOps /\ WroteClosedAt)
        => /\ IsTerminal(req.payload.status)
           /\ \A prev \in PreviousStatusRead : ~IsTerminal(prev)

C10_DeleteUnknownNotFound ==
    [][ (req'.op = "delete_ticket" /\ req'.payload.id \notin DOMAIN tickets)
            => /\ result'.kind = "NotFound"
               /\ Writes(stmts') = <<>>
               /\ tickets' = tickets ]_vars

\* C10 witness: the delete of an unknown id was refused while a ticket is stored.
C10_Witness ==
    /\ req.op = "delete_ticket"
    /\ req.payload.id = UnknownTicket
    /\ result.kind = "NotFound"
    /\ DOMAIN tickets # {}

\* C9: a registration of a username some stored user already has fails with
\* AlreadyExists (HTTP 409) and inserts no row; a valid registration of a
\* username nobody has succeeds with a new id, and exactly one user has that
\* username afterwards.  So of two registrations of one username run one
\* after the other the first succeeds and the second is refused.
C9_SecondRegistrationRefused ==
    [][ (req'.op = "register" /\ RegisterPayload_validate(req'.payload)) =>
          IF UserIdsNamed(users, req'.payload.username) # {}
          THEN /\ result'.kind = "AlreadyExists"
               /\ HttpStatus(result'.kind) = 409
               /\ Writes(stmts') = <<>>
               /\ users' = users
          ELSE /\ result'.kind = "Ok"
               /\ result'.id \notin DOMAIN users
               /\ UserIdsNamed(users', req'.payload.username) = {result'.id} ]_vars

\* C9 witness: "carol" was registered before, and registering it again was refused.
C9_Witness ==
    /\ req.op = "register"
    /\ req.payload.username = "carol"
    /\ result.kind = "AlreadyExists"
    /\ Cardinality(UserIdsNamed(users, "carol")) = 1
    /\ UserIdsNamed(users, "carol") \subseteq NewUserIds

\* The stored row of the user the middleware attached to the request.
Caller(r) == users[r.caller]

Privileged == {"admin", "moderator"}

\* A request that reached its handler.
Reached(r, ops) == r.op \in ops /\ r.caller # NONE

\* C5: a ticket created by a caller of role User is stored with the caller as
\* requester whatever the payload names; a ticket created by an Admin or
\* Moderator is stored with the user the payload names.
C5_RequesterForcedForUserRole ==
    [][ (Reached(req', {"create_ticket"}) /\ result'.kind = "Ok") =>
          IF ~require_any_role(Caller(req'), Privileged)
          THEN tickets'[result'.id].requester = req'.caller
          ELSE tickets'[result'.id].requester
                   \in UserIdsNamed(users, req'.payload.requester) ]_vars

\* C6: a ticket update by a caller of role User leaves status, requester,
\* closed_by, solution and closed_at as they were and is no error; an update
\* by an Admin or Moderator applies every supplied field.
C6_UserRoleUpdateKeepsGatedFields ==
    [][ (Reached(req', {"update_ticket"}) /\ req'.payload.id \in DOMAIN tickets) =>
          LET id == req'.payload.id
          IN  IF ~require_any_role(Caller(req'), Privileged)
              THEN \A f \in {"status", "requester", "closed_by", "solution", "closed_at"} :
                      tickets'[id][f] = tickets[id][f]
              ELSE \A f \in Supplied(req'.payload) :
                      tickets'[id][f] = req'.payload[f] ]_vars

\* C7: a role-gated operation called by an identity that is neither Admin nor
\* Moderator fails with Unauthorized, and its handler runs no statement.
C7_GatedOpsNeedPrivilege ==
    [][ (Reached(req', {"delete_ticket", "delete_user"})
            /\ ~require_any_role(Caller(req'), Privileged)) =>
          (result'.kind = "Unauthorized" /\ stmts' = <<>>) ]_vars

\* C8: a user whose stored status is not Active gets no token from login
\* (Unauthorized), and a request on an authenticated endpoint made in that
\* user's name, even with an unexpired token issued earlier, fails with
\* Unauthorized before the handler runs.
C8_InactiveUserShutOut ==
    [][ /\ (req'.op = "login"
              /\ \E u \in UserIdsNamed(users, req'.payload.username) :
                     users[u].status # "active")
           => (result'.kind = "Unauthorized" /\ tokens' = tokens)
        /\ (req'.op \in AuthenticatedOps
              /\ req'.header.kind = "bearer"
              /\ decode_jwt(req'.header.token, now).kind = "Ok"
              /\ \E u \in UserIdsNamed(users, req'.header.token.sub) :
                     AccessControl_from_request_parts({users[u]}) # "Ok")
           => (result'.kind = "Unauthorized" /\ stmts' = <<>>) ]_vars

\* The update named an id that matches no row when the call started.
UnknownTarget ==
    \/ req'.op \in TicketUpdateOps /\ req'.payload.id \notin DOMAIN tickets
    \/ req'.op \in UserUpdateOps /\ req'.payload.id \notin DOMAIN users

\* C11 as stated: every update of an id that matches no entity, by the
\* repository or through a handler, fails with NotFound and issues no write.
C11_UnknownIdAlwaysNotFound ==
    [][ UnknownTarget => (result'.kind = "NotFound" /\ Writes(stmts') = <<>>) ]_vars

\* C11 amended: the existence check belongs to the handlers.  update_ticket
\* and update_user on an id that matches no entity fail before any write,
\* with ValidationError for a patch that fails validation and NotFound for
\* every other patch.  The repository update makes no check: on such an id an
\* empty patch returns NotModified and a non-empty patch issues its UPDATE
\* statements, which match no row, and returns the id.  No row changes.
C11_UnknownIdByLayer ==
    [][ UnknownTarget =>
          /\ tickets' = tickets /\ users' = users
          /\ req'.op = "update_ticket" =>
                /\ Writes(stmts') = <<>>
                /\ result'.kind = IF UpdateTicketPayload_validate(req'.payload)
                                  THEN "NotFound" ELSE "ValidationError"
          /\ req'.op = "update_user" =>
                /\ Writes(stmts') = <<>>
                /\ result'.kind = IF UpdateUserPayload_validate(req'.payload)
                                  THEN "NotFound" ELSE "ValidationError"
          /\ req'.op = "Ticket::update" =>
                IF Supplied(req'.payload) = {}
                THEN result'.kind = "NotModified" /\ Writes(stmts') = <<>>
                ELSE result' = [kind |-> "Ok", id |-> req'.payload.id]
                        /\ Writes(stmts') # <<>>
          /\ req'.op = "User::update" =>
                IF SuppliedUser(req'.payload) = {}
                THEN result'.kind = "NotModified" /\ Writes(stmts') = <<>>
                ELSE result' = [kind |-> "Ok", id |-> req'.payload.id]
                        /\ Writes(stmts') # <<>> ]_vars

\* C11 witness: update_user refused a non-empty patch for an unknown id.
C11_Witness ==
    /\ req.op = "update_user"
    /\ req.payload.id = UnknownUser
    /\ SuppliedUser(req.payload) # {}
    /\ result.kind = "NotFound"
    /\ stmts = <<<<"SELECT", "id">>>>

\* The token of the last request carries the signature generate_jwt gives its claims.
WellSigned(k) == k.sig = Sign(JwtSecret, k.sub, k.iat, k.exp)

\* C12: decoding a token just issued for a username and a role succeeds and
\* yields that username as subject and that role as role; decoding a token
\* whose payload or signature was altered, or signed with another secret, fails.
C12_TokenRoundTrip ==
    [][ /\ (req.op = "generate_jwt" /\ req'.op = "decode_jwt" /\ req'.payload \in tokens)
            => /\ result'.kind = "Ok"
               /\ result'.claims.sub = req.payload.username
               /\ "role" \in DOMAIN result'.claims
               /\ result'.claims.role = req.payload.role
        /\ (req'.op = "decode_jwt" /\ req'.payload \notin tokens)
            => result'.kind = "Err" ]_vars

\* C13 as stated: a correctly signed token is accepted exactly while its
\* exp is strictly greater than the clock.
C13_AcceptedIffExpAfterNow ==
    [][ (req'.op \in {"decode_jwt", "validate_jwt"} /\ WellSigned(req'.payload))
          => (result'.kind = "Ok" <=> req'.payload.exp > now) ]_vars

\* C13 amended: a correctly signed token is accepted up to and including
\* Leeway seconds after its exp = issue time + TTL, and rejected from then on.
C13_AcceptedUntilLeewayAfterExp ==
    [][ (req'.op \in {"decode_jwt", "validate_jwt"} /\ WellSigned(req'.payload))
          => (result'.kind = "Ok"
                <=> now <= req'.payload.iat + JwtExpirationTime + Leeway) ]_vars

\* C13 witness: a token was accepted Leeway seconds after its exp.
C13_Witness ==
    /\ req.op = "validate_jwt"
    /\ req.payload \in tokens
    /\ now = req.payload.exp + Leeway
    /\ result.kind = "Ok"

\* C14: login of a username no user has answers NotFound (404); login of an
\* Active user with a password that does not match the stored hash answers
\* 401 and issues no token; login of an Active user with the matching
\* password answers 200 with a token whose subject is the username.
C14_LoginOutcomes ==
    [][ req'.op = "login" =>
          LET p == req'.payload
              ids == UserIdsNamed(users, p.username)
          IN  /\ ids = {} => (result'.kind = "NotFound" /\ HttpStatus(result'.kind) = 404)
              /\ \A u \in ids :
                    users[u].status = "active" =>
                        IF verify_password(p.password, users[u].password_hash) = "Ok"
                        THEN /\ HttpStatus(result'.kind) = 200
                             /\ generate_jwt(p.username, now) \in tokens'
                        ELSE /\ HttpStatus(result'.kind) = 401
                             /\ tokens' = tokens ]_vars

C16_CreatedTicketReadBack ==
    [][ (Reached(req', {"create_ticket"}) /\ result'.kind = "Ok") =>
          LET got == search_ticket(tickets', result'.id)
              pub == TicketRepositoryImpl_find_by_id(tickets', users', result'.id)
          IN  /\ got.kind = "Ok"
              /\ got.ticket.title = req'.payload.title
              /\ got.ticket.description = req'.payload.description
              /\ got.ticket.requester = req'.caller
              /\ got.ticket.status = "open"
              /\ got.ticket.closed_at = NullTime
              /\ got.ticket.closed_by = NONE
              /\ got.ticket.solution = NONE
              /\ \E t \in pub : t.requester.id = req'.caller /\ t.closed_by = NONE ]_vars

\* models::user::UpdateUserPayload: the fields the update_user handler reads.
UpdateUserPayloadFields == {"username", "email", "password", "first_name", "last_name"}

\* The columns a ticket patch may write: those of its supplied fields,
\* updated_at, and closed_at when it supplies a terminal status.
TicketColumnsOf(p) ==
    Supplied(p) \cup {"updated_at"}
        \cup (IF p.status \in {"closed", "cancelled"} THEN {"closed_at"} ELSE {})

\* The columns a user patch may write; the password is stored as password_hash.
UserColumnsOf(p) ==
    {IF f = "password" THEN "password_hash" ELSE f : f \in SuppliedUser(p)} \cup {"updated_at"}

\* Table `after` differs from `before` at most in the columns `cols` of row `id`.
OnlyChanged(before, after, id, cols) ==
    /\ DOMAIN after = DOMAIN before
    /\ \A r \in DOMAIN before :
          \A c \in DOMAIN before[r] :
              (r # id \/ c \notin cols) => after[r][c] = before[r][c]

\* C17: a successful partial update changes only the columns of the fields
\* its patch supplies, updated_at, and closed_at when the patch supplies a
\* terminal status; every other column of the row, every other row and the
\* other table keep their values, and each supplied field holds its new value.
C17_UpdateFrame ==
    [][ /\ (req'.op \in TicketUpdateOps /\ result'.kind = "Ok") =>
              /\ OnlyChanged(tickets, tickets', req'.payload.id, TicketColumnsOf(req'.payload))
              /\ users' = users
              /\ req'.payload.id \in DOMAIN tickets =>
                    \A f \in Supplied(req'.payload) :
                        tickets'[req'.payload.id][f] = req'.payload[f]
        /\ (req'.op \in UserUpdateOps /\ result'.kind = "Ok") =>
              /\ OnlyChanged(users, users', req'.payload.id, UserColumnsOf(req'.payload))
              /\ tickets' = tickets
              /\ req'.payload.id \in DOMAIN users =>
                    \A f \in SuppliedUser(req'.payload) \ {"password"} :
                        (req'.op = "update_user" => f \in UpdateUserPayloadFields)
                            => users'[req'.payload.id][f] = req'.payload[f] ]_vars

\* C17 witness: a patch of status alone cancelled a ticket; its title, its
\* closer and the second ticket are what they were.
C17_Witness ==
    /\ req.op = "Ticket::update"
    /\ Supplied(req.payload) = {"status"}
    /\ req.payload.status = "cancelled"
    /\ result.kind = "Ok"
    /\ tickets["t1"].status = "cancelled"
    /\ tickets["t1"].closed_at = now
    /\ tickets["t1"].title = "Printer"
    /\ tickets["t2"] = Ticket_new("Monitor", "No signal at all", "u_root", 1)

\* The positions of the updated_at write among the statements `ss`.
StampsIn(ss) == {i \in DOMAIN ss : ss[i] = <<"UPDATE", "updated_at">>}

\* C18: a repository update writes updated_at exactly when its patch
\* supplies at least one field, and then as its last statement; otherwise it
\* returns NotModified (304).  Whether the supplied values differ from the
\* stored ones plays no part: a patch repeating the stored values succeeds.
C18_StampIffSupplied ==
    [][ (req'.op \in {"Ticket::update", "User::update"}) =>
          LET any == IF req'.op = "Ticket::update"
                     THEN Supplied(req'.payload) # {}
                     ELSE SuppliedUser(req'.payload) # {}
          IN  IF any
              THEN /\ result'.kind = "Ok"
                   /\ StampsIn(stmts') = {Len(stmts')}
              ELSE /\ result'.kind = "NotModified"
                   /\ HttpStatus(result'.kind) = 304
                   /\ StampsIn(stmts') = {} ]_vars

\* C18 witness: a patch giving a paused ticket the status paused again
\* succeeded and stamped updated_at as its last statement.
C18_Witness ==
    /\ req.op = "Ticket::update"
    /\ Supplied(req.payload) = {"status"}
    /\ req.payload.status = "paused"
    /\ PreviousStatusRead = {"paused"}
    /\ result.kind = "Ok"
    /\ stmts[Len(stmts)] = <<"UPDATE", "updated_at">>
    /\ tickets["t1"].updated_at = now
    /\ now > tickets["t1"].created_at

\* The users table with the password hash of user `u` replaced.
Rehashed(u) == [users EXCEPT ![u].password_hash = encrypt_password("another one")]

\* C19: no read of users depends on the password_hash column: with the hash
\* of any user replaced, list-all and get-by-id answer what they answered
\* before, through the handlers and through the repository.
C19_ReadsHidePasswordHash ==
    \A u \in DOMAIN users :
        /\ find_all_users(Rehashed(u)) = find_all_users(users)
        /\ find_user_by_id(Rehashed(u), u) = find_user_by_id(users, u)
        /\ UserRepositoryImpl_find_all(Rehashed(u)) = UserRepositoryImpl_find_all(users)
        /\ UserRepositoryImpl_find_by_id(Rehashed(u), u) = UserRepositoryImpl_find_by_id(users, u)

\* The users a ticket names that the store no longer holds.
MissingRelated(t) ==
    ({tickets[t].requester} \cup ({tickets[t].closed_by} \ {NONE})) \ DOMAIN users

\* C20: in the single-ticket PDF, the single-ticket CSV and the all-tickets
\* CSV alike, a requester or closed_by id that resolves to no user is shown
\* as "null" and the export still completes; the lookup failure never ends
\* the export with an error.
C20_MissingUserRendersNull ==
    \A t \in DOMAIN tickets :
        MissingRelated(t) # {} =>
            /\ ticket_to_pdf(tickets, users, t).kind = "Ok"
            /\ ticket_to_csv(tickets, users, t).kind = "Ok"
            /\ tickets_to_csv(tickets, users).kind = "Ok"
            /\ req.op \in {"ticket_to_pdf", "ticket_to_csv"} /\ req.payload.id = t
                   => result.kind = "Ok"

\* The environments in which the secret or the TTL is unset or malformed.
Misconfigured(env) == env.JWT_SECRET = {} \/ EnvSeconds(env) = {}

\* C21: token issuance with the signing secret unset, or with the TTL unset
\* or not a number, returns ConfigError to the caller and never aborts the
\* handling task.
C21_MisconfiguredIssuanceIsConfigError ==
    [][(req'.op = "generate_jwt" /\ "env" \in DOMAIN req'.payload
            /\ Misconfigured(req'.payload.env))
        => result'.kind = "ConfigError"]_vars

\* The statement task k executed last in this step, if it executed one.
Executed(k) == IF stmts'[k] # stmts[k] THEN {stmts'[k][Len(stmts'[k])]} ELSE {}

\* The columns the task has written, in order.
WrittenBy(k) == SelectSeq(stmts[k], LAMBDA e : e[1] = "UPDATE")

\* C22: when the store fails the k-th statement of a partial update, the
\* update returns DatabaseError and stops: the failing step writes nothing
\* and rolls nothing back, the task executes no further statement, and it
\* has not stamped updated_at.
C22_FailureStopsTheUpdate ==
    [][\A k \in Tasks :
          /\ (\E e \in Executed(k) : e[1] = "FAILED")
                => /\ result'[k].kind = "DatabaseError"
                   /\ req'[k].pc = "done"
                   /\ tickets' = tickets
                   /\ \A i \in 1..Len(stmts'[k]) : stmts'[k][i][2] # "updated_at"
          /\ (req[k].pc = "done" /\ result[k].kind = "DatabaseError")
                => /\ stmts'[k] = stmts[k]
                   /\ result'[k] = result[k]
                   /\ req'[k] = req[k]]_vars

\* C22 witness: the closed_at write of a closing update failed after its
\* status write; the ticket is Closed with closed_at still null.
C22_Witness ==
    \E k \in Tasks :
        /\ req[k].op = "update_ticket"
        /\ req[k].pc = "done"
        /\ result[k].kind = "DatabaseError"
        /\ stmts[k][Len(stmts[k])] = <<"FAILED", "closed_at", 0>>
        /\ stmts[k][Len(stmts[k]) - 1] = <<"UPDATE", "status", 1>>
        /\ "t1" \in DOMAIN tickets
        /\ tickets["t1"].status = "closed"
        /\ tickets["t1"].closed_at = NullTime
        /\ tickets["t1"].updated_at = 1

\* An update whose existence check found the row and whose next statement
\* already found none: the row was deleted in between.
RowGoneAfterCheck(k) ==
    /\ req[k].op = "update_ticket"
    /\ req[k].pc = "done"
    /\ result[k].kind # "DatabaseError"
    /\ Len(stmts[k]) >= 2
    /\ stmts[k][1] = <<"SELECT", "id", 1>>
    /\ stmts[k][2][3] = 0

\* C23: an update that passed the existence check just before a delete
\* removed the row still completes: it answers Ok with the id, each of its
\* statements affects zero rows, and the ticket stays absent.
C23_UpdateAfterDeleteSucceedsOnNothing ==
    \A k \in Tasks :
        RowGoneAfterCheck(k)
            => /\ result[k] = [kind |-> "Ok", id |-> req[k].payload.id]
               /\ \A i \in 2..Len(stmts[k]) : stmts[k][i][3] = 0
               /\ req[k].payload.id \notin DOMAIN tickets

\* C23 witness: the three-field closing update ran to its end on the
\* deleted row while the delete answered Ok.
C23_Witness ==
    \E k, j \in Tasks :
        /\ RowGoneAfterCheck(k)
        /\ Len(stmts[k]) = 6
        /\ req[j].op = "delete_ticket"
        /\ result[j].kind = "Ok"

\* C25: closed_at never goes back to null while the ticket exists, whatever
\* the updates and however their statements interleave.
C25_ClosedAtNeverCleared ==
    [][\A t \in DOMAIN tickets \cap DOMAIN tickets' :
          tickets[t].closed_at # NullTime => tickets'[t].closed_at # NullTime]_vars

\* C25 witness: a ticket closed earlier was reopened by a finished update
\* and still carries its closed_at.
C25_Witness ==
    /\ "t1" \in DOMAIN tickets
    /\ tickets["t1"].status = "reopened"
    /\ tickets["t1"].closed_at # NullTime
    /\ \E k \in Tasks : /\ req[k].op = "update_ticket"
                        /\ req[k].payload.status = "reopened"
                        /\ result[k].kind = "Ok"

\* No update is under way and the store has failed no statement.
Settled ==
    /\ \A k \in Tasks : req[k].op = "update_ticket" => req[k].pc = "done"
    /\ \A k \in Tasks : ~Failed(k)

\* C26: whenever no update is in progress and no store write has failed,
\* every stored ticket that is Closed or Cancelled has a closed_at.
C26_SettledTerminalHasClosedAt ==
    Settled => \A t \in DOMAIN tickets :
                   tickets[t].status \in {"closed", "cancelled"}
                       => tickets[t].closed_at # NullTime

\* C26 witness: an update stands between its status write and its closed_at
\* write, and the stored ticket reads Closed with closed_at null.
C26_Witness ==
    /\ \E k \in Tasks : /\ req[k].op = "update_ticket"
                        /\ req[k].pc = "closed_at"
                        /\ stmts[k][Len(stmts[k])] = <<"UPDATE", "status", 1>>
    /\ tickets["t1"].status = "closed"
    /\ tickets["t1"].closed_at = NullTime

BothPassedThePrecheck ==
    /\ \A k \in Tasks : /\ req[k].op = "register"
                        /\ req[k].pc = "done"
                        /\ ~Failed(k)
                        /\ Len(stmts[k]) = 2
                        /\ stmts[k][1] = <<"SELECT", "username", 0>>
    /\ req["a"].payload.username = req["b"].payload.username

\* C24: of two concurrent registrations of one username that both passed
\* the precheck, at most one insert succeeds, and the one the store rejects
\* for the duplicate key fails with AlreadyExists.
C24_RacingRegistrationAlreadyExists ==
    BothPassedThePrecheck
        => /\ Cardinality({k \in Tasks : result[k].kind = "Ok"}) <= 1
           /\ \A k \in Tasks : stmts[k][2][1] = "REJECTED" => result[k].kind = "AlreadyExists"

\* Task k's patch supplies field f of the row its update has finished on.
Supplies(k, f) ==
    IF req[k].op = "update_ticket" THEN f \in Supplied(req[k].payload)
    ELSE f \in SuppliedUser(req[k].payload) \cap UpdateUserPayloadFields

\* The value the row holds for field f when task k's write is in place.
HoldsValueOf(k, f) ==
    IF req[k].op = "update_ticket"
    THEN tickets[req[k].payload.id][f] = req[k].payload[f]
    ELSE IF f = "password"
    THEN users[req[k].payload.id].password_hash = encrypt_password(req[k].payload.password)
    ELSE users[req[k].payload.id][f] = req[k].payload[f]

\* Both tasks ran an update of the same kind on the same entity to the end,
\* and the entity is still there.
TwoUpdatesDone ==
    /\ req["a"].op \in {"update_ticket", "update_user"}
    /\ req["b"].op = req["a"].op
    /\ req["a"].payload.id = req["b"].payload.id
    /\ \A k \in Tasks : req[k].pc = "done" /\ result[k].kind = "Ok"
    /\ req["a"].payload.id \in (IF req["a"].op = "update_ticket" THEN DOMAIN tickets
                                ELSE DOMAIN users)

\* C29: two concurrent updates of one existing entity both take effect under
\* every interleaving: a field only one patch supplies holds that patch's
\* value, a field both supply holds the value of one of them, and updated_at
\* is stamped.
C29_ConcurrentUpdatesBothApply ==
    TwoUpdatesDone
        => /\ \A f \in TicketFields \cup UserFields :
                /\ (Supplies("a", f) /\ ~Supplies("b", f)) => HoldsValueOf("a", f)
                /\ (Supplies("b", f) /\ ~Supplies("a", f)) => HoldsValueOf("b", f)
                /\ (Supplies("a", f) /\ Supplies("b", f))
                       => (HoldsValueOf("a", f) \/ HoldsValueOf("b", f))
           /\ IF req["a"].op = "update_ticket"
              THEN tickets[req["a"].payload.id].updated_at = now
              ELSE users[req["a"].payload.id].updated_at = now

\* C29 witness: a title update and the closing update both finished on t1
\* after their statements interleaved (the title was written between the
\* status read and the last write of the other task).
C29_Witness ==
    /\ TwoUpdatesDone
    /\ req["a"].op = "update_ticket"
    /\ Supplied(req["a"].payload) = {"title"}
    /\ Supplied(req["b"].payload) = {"status", "closed_by", "solution"}
    /\ tickets["t1"].title = req["a"].payload.title
    /\ tickets["t1"].solution = req["b"].payload.solution

\* The request served last was a user update that stored a status for the
\* user the token of the request now served is about.
UpdatedSubject ==
    /\ req.op = "User::update"
    /\ result.kind = "Ok"
    /\ req.payload.status # NONE
    /\ req.payload.id \in DOMAIN users
    /\ req'.op \in AuthenticatedOps
    /\ req'.header.kind = "bearer"
    /\ decode_jwt(req'.header.token, now).kind = "Ok"
    /\ req'.header.token.sub = users[req.payload.id].username

\* C28: the access decision for a request depends only on the role and status
\* stored for the token's subject at the time of the request: a status change
\* made by a user update applies to the very next request made with a token
\* issued before the change, which reaches its handler exactly when the stored
\* status admits the subject.
C28_StoredStatusDecidesNextRequest ==
    [][ UpdatedSubject =>
          /\ (req'.caller # NONE) =
                (AccessControl_from_request_parts({users[req.payload.id]}) = "Ok")
          /\ req'.caller = NONE => (result'.kind = "Unauthorized" /\ stmts' = <<>>) ]_vars

\* errors::auth_error::AuthError, by variant.
AuthErrors == {"MissingToken", "EmptyHeader", "InvalidToken"}

\* C30: for every value of the Authorization header the authorize middleware
\* ends in an error value (AuthError or DatabaseError) or in a call of the next
\* handler, and a header made of a single word yields an AuthError rather
\* than aborting the task at the unwrap of the missing token part.
C30_EveryHeaderEndsInErrorOrNext ==
    [][ (req'.op \in AuthenticatedOps /\ req' # req) =>
          /\ req'.caller = NONE => result'.kind \in AuthErrors \cup {"DatabaseError"}
          /\ req'.header.kind = "oneword" => result'.kind \in AuthErrors ]_vars

====
